---- MODULE Spec2Model ----
(***************************************************************************)
(* A model of gwatts/dyndump: the chunked S3 writer (S3Writer), the S3     *)
(* reader (S3Reader), the parallel Loader and the parallel Fetcher, each   *)
(* as a state machine translated from its Go source.                       *)
(*                                                                         *)
(* Every component has its own specification (SpecWriter, SpecReader,      *)
(* SpecLoader, SpecFetcher, SpecPipeline); a specification leaves the      *)
(* variables of the components it does not run at their idle values.      *)
(***************************************************************************)
EXTENDS Integers, Sequences, FiniteSets, TLC

(***************************************************************************)
(* Bounds of the model.                                                    *)
(***************************************************************************)
\* number of S3Writer workers started by Run (S3Writer.MaxParallel)
WMaxParallel == 2
\* number of Write calls the client of the S3Writer makes before Close
MaxWrites == 3
\* longest record passed to one Write call, in bytes
MaxRecLen == 2
\* S3Writer.PartSize, in bytes of temp file
PartSize == 2

(***************************************************************************)
(* Helpers.                                                                *)
(***************************************************************************)
NoErr == "nil"

Max(a, b) == IF a >= b THEN a ELSE b

Min(a, b) == IF a <= b THEN a ELSE b

RECURSIVE SumSeq(_)
SumSeq(s) == IF s = <<>> THEN 0 ELSE Head(s) + SumSeq(Tail(s))

RECURSIVE Flatten(_)
Flatten(ss) == IF ss = <<>> THEN <<>> ELSE Head(ss) \o Flatten(Tail(ss))

\* crypto/sha256 followed by fmt.Sprintf("%x"): an injective digest of the
\* bytes written to the hasher (no collisions are modelled).
Sha256Hex(bytes) == <<"sha256", bytes>>

\* the empty string where a hash is expected
NoHash == <<>>

(***************************************************************************)
(* S3Writer state.                                                         *)
(***************************************************************************)
VARIABLES
    runPc,      \* S3Writer.Run: "start", "wait" (wg.Wait) or "done"
    runErr,     \* the error Run returned
    md,         \* S3Writer.md, the metadata descriptor
    partnum,    \* S3Writer.partnum, the atomic part counter
    failed,     \* S3Writer.failed, the failure latch (guarded by fm)
    metaHash,   \* S3Writer.metaHash, the hashCalc reorder buffer
    chanClosed, \* whether close(w.data) has run
    wpc,        \* position of each worker goroutine
    wl,         \* locals of each worker goroutine
    s3parts,    \* part objects stored by PutObject, by part number
    s3meta,     \* the metadata object last stored at <prefix>-meta.json
    cpc,        \* position of the client that calls Write and Close
    cData,      \* the bytes of the Write call in progress
    cRecs,      \* lengths of the records whose Write returned nil, in call order
    cErr,       \* error returned by the client's last Write or Close call
    completed,  \* part numbers in the order completePart was entered (history)
    late        \* the records received with the failure latch set (history)

wvars == <<runPc, runErr, md, partnum, failed, metaHash, chanClosed, wpc, wl,
           s3parts, s3meta, cpc, cData, cRecs, cErr, completed, late>>

(***************************************************************************)
(* S3Reader state.                                                         *)
(***************************************************************************)
VARIABLES
    rStore,     \* the bucket as the reader sees it: listing pages, metadata, options
    rPipe,      \* S3Reader.r / S3Reader.w: FALSE before io.Pipe(), else the pipe
    rdPc,       \* position of the reader goroutine
    rd,         \* locals of the reader goroutine
    rcPc,       \* position of the consumer: "idle" or "pipe" (inside r.r.Read)
    rErr,       \* S3Reader.err
    rOut,       \* all bytes Read has returned to the consumer so far
    rRet,       \* (n, err) returned by the last Read call
    rAfter,     \* number of Read calls made after a Read returned an error
    rFail       \* the error a list call, a get call or a body read returned (history)

rvars == <<rStore, rPipe, rdPc, rd, rcPc, rErr, rOut, rRet, rAfter, rFail>>

(***************************************************************************)
(* Loader state.                                                           *)
(***************************************************************************)
VARIABLES
    ldCfg,      \* the Loader's fields set by its user, and the items of its Source
    table,      \* the DynamoDB table the Loader puts to: hash key -> row
    ldRun,      \* Loader.Run: position, err, rem and the drain loop's i
    ldStop,     \* stopRequest (buffered), stopNotify (closed or not), the stopper
    ldReader,   \* the reader goroutine: position, rc, the item it holds
    errChan,    \* errChan, the buffered channel the writer goroutines report on
    ldw,        \* the writer goroutines (Loader.load): position and item
    ldStats,    \* itemsWritten and itemsSkipped
    ldPuts      \* every PutItem call made so far, with its outcome (history)

lvars == <<ldCfg, table, ldRun, ldStop, ldReader, errChan, ldw, ldStats, ldPuts>>

(***************************************************************************)
(* Fetcher state.                                                          *)
(***************************************************************************)
VARIABLES
    fCfg,       \* the Fetcher's fields set by its user, and the scanned table's segments
    fRun,       \* Fetcher.Run: position, err and the wait loop's i
    fStop,      \* stopRequest (buffered), stopNotify (closed or not), the stopper
    fErrChan,   \* errChan, the buffered channel the segment goroutines report on
    fReports,   \* the reports sent on errChan so far, in send order (history)
    fw,         \* the segment goroutines (processSegment): position, response, ...
    fStats,     \* itemsRead
    sink        \* the items WriteItem of the Fetcher's Writer was called with (history)

fvars == <<fCfg, fRun, fStop, fErrChan, fReports, fw, fStats, sink>>

(***************************************************************************)
(* S3Deleter state.                                                        *)
(***************************************************************************)
VARIABLES
    dStore,     \* the pages ListObjectsPages yields under the part prefix
    dBucket,    \* the keys that exist in the bucket
    dl,         \* S3Deleter.Delete: position, page, err, s3err, isCompleted, result
    delcount,   \* S3Deleter.delcount
    dAbort,     \* S3Deleter.abort
    dReqs,      \* the key lists of the DeleteObjects calls, in call order (history)
    dFailed     \* the number of the DeleteObjects call that failed, 0 if none (history)

dvars == <<dStore, dBucket, dl, delcount, dAbort, dReqs, dFailed>>

(***************************************************************************)
(* Item codec state: one SimpleEncoder.WriteItem call and one              *)
(* SimpleDecoder.ReadItem call on its output.                              *)
(***************************************************************************)
VARIABLES
    jItem,      \* the item WriteItem is called with
    jLine,      \* the bytes the encoder wrote
    jOut,       \* the item ReadItem returned
    jPc         \* "encode", "decode" or "done"

jvars == <<jItem, jLine, jOut, jPc>>

(***************************************************************************)
(* State of the dump command while it opens its S3 writer.                 *)
(***************************************************************************)
VARIABLES
    oBucket,    \* the objects under the prefix: key -> body
    oBucket0,   \* oBucket when the dump command started (history)
    oGet,       \* what S3Reader.Metadata returned: md and err
    oRet,       \* what openS3Writer returned: whether a writer, and the error
    oPc         \* position of the dump command

ovars == <<oBucket, oBucket0, oGet, oRet, oPc>>

(***************************************************************************)
(* Fetcher scan limit state: the limitCalc window of recent item sizes and *)
(* one segment's scan limit.                                               *)
(***************************************************************************)
VARIABLES
    limitCalc,  \* itemSizes: the window, offset: the sizes added so far
    clFetcher,  \* the Fetcher's ReadCapacity, MaxParallel and ConsistentRead
    clLimit,    \* params.Limit of the segment
    clCall,     \* the last calcLimit call: window and limit before it, result
    clAdded     \* the sizes addSize was called with, in call order (history)

cvars == <<limitCalc, clFetcher, clLimit, clCall, clAdded>>

(***************************************************************************)
(* S3Writer metadata uploads, call by call: the mutex of completePart and  *)
(* the PutObject calls of flushMetadata.                                   *)
(***************************************************************************)
VARIABLES
    mm,         \* S3Writer.mm: 0 when free, else the worker that holds it
    metaFlight, \* the metadata puts that have been called and not returned
    metaPuts    \* the metadata objects stored, in order (history)

mvars == <<mm, metaFlight, metaPuts>>

(***************************************************************************)
(* Fetcher with its rate limit: the token bucket, the scan limit and the   *)
(* shared size window of the segment goroutines.                           *)
(***************************************************************************)
VARIABLES
    rlCfg,      \* ReadCapacity, ConsistentRead, MaxItems
    rateLimit,  \* Fetcher.rateLimit: nil or the bucket
    rlTable,    \* the number of items left to scan in each segment
    rlRun,      \* Fetcher.Run: position, err and the wait loop's i
    rlStop,     \* stopRequest, stopNotify, the stopper, the user's Stop calls
    rlErrChan,  \* errChan
    rlCalc,     \* Fetcher.limitCalc
    rlw,        \* the segment goroutines: position, params.Limit, response
    rlStats,    \* itemsRead
    rlReqs      \* the Scan calls made: goroutine, Limit, window filled (history)

gvars == <<rlCfg, rateLimit, rlTable, rlRun, rlStop, rlErrChan, rlCalc, rlw,
           rlStats, rlReqs>>

(***************************************************************************)
(* The goroutine dumper.start runs around Fetcher.Run.                     *)
(***************************************************************************)
VARIABLES
    dumpPc,     \* position of the goroutine: "select", "stopped", "closing", "done"
    abortChan,  \* whether dumper.abortChan holds a signal
    dumpCalls   \* the calls made on the writers, in call order (history)

pvars == <<dumpPc, abortChan, dumpCalls>>

\* the variables of the functions that are checked on their own
uvars == <<jvars, ovars, cvars, mvars, gvars, pvars>>

\* the variables the S3Writer actions leave alone
nonW == <<rvars, lvars, fvars, dvars, uvars>>

\* the variables the S3Reader actions leave alone
nonR == <<wvars, lvars, fvars, dvars, uvars>>

\* the variables the Loader actions leave alone
nonL == <<wvars, rvars, fvars, dvars, uvars>>

\* the variables the Fetcher actions leave alone
nonF == <<wvars, rvars, lvars, dvars, uvars>>

\* the variables the S3Deleter actions leave alone
nonD == <<wvars, rvars, lvars, fvars, uvars>>

\* the variables the item codec leaves alone
nonJ == <<wvars, rvars, lvars, fvars, dvars, ovars, cvars, mvars, gvars, pvars>>

\* the variables openS3Writer leaves alone
nonO == <<wvars, rvars, lvars, fvars, dvars, jvars, cvars, mvars, gvars, pvars>>

\* the variables the scan limit calculation leaves alone
nonC == <<wvars, rvars, lvars, fvars, dvars, jvars, ovars, mvars, gvars, pvars>>

\* the variables the metadata uploads leave alone
nonM == <<rvars, lvars, fvars, dvars, jvars, ovars, cvars, gvars, pvars>>

\* the variables the rate-limited Fetcher leaves alone
nonG == <<wvars, rvars, lvars, fvars, dvars, jvars, ovars, cvars, mvars, pvars>>

WWorkers == 1..WMaxParallel

\* The bytes of the n-th Write call: byte j of record n is <<n, j>>, so that
\* every byte written is distinguishable in the uploaded parts.
RecBytes(n, len) == [j \in 1..len |-> <<n, j>>]

NoMeta == [Status |-> "absent"]

\* NewS3Writer: the seed metadata
NewMetadata ==
    [Status |-> "running", EndTime |-> FALSE, UncompressedBytes |-> 0,
     CompressedBytes |-> 0, ItemCount |-> 0, PartCount |-> 0,
     Hash |-> NoHash, LastHashed |-> 0]

\* newHashCalc: reorder buffer starting at index 0, hipart -1
NewHashCalc == [next |-> 0, held |-> <<>>, h |-> <<>>, hipart |-> -1]

\* worker locals at goroutine start
NewWorkerLocals ==
    [failed |-> FALSE, rawPendingLen |-> 0, writeCount |-> 0,
     pending |-> <<>>, fsize |-> 0, pn |-> 0, key |-> <<>>, tail |-> FALSE]

WInit ==
    /\ runPc = "start"
    /\ runErr = NoErr
    /\ md = NewMetadata
    /\ partnum = 0
    /\ failed = NoErr
    /\ metaHash = NewHashCalc
    /\ chanClosed = FALSE
    /\ wpc = [w \in WWorkers |-> "idle"]
    /\ wl = [w \in WWorkers |-> NewWorkerLocals]
    /\ s3parts = <<>>
    /\ s3meta = NoMeta
    /\ cpc = "write"
    /\ cData = <<>>
    /\ cRecs = <<>>
    /\ cErr = NoErr
    /\ completed = <<>>
    /\ late = {}

\* a writer that is never constructed
WIdle ==
    /\ runPc = "off"
    /\ runErr = NoErr
    /\ md = NoMeta
    /\ partnum = 0
    /\ failed = NoErr
    /\ metaHash = NewHashCalc
    /\ chanClosed = FALSE
    /\ wpc = [w \in WWorkers |-> "idle"]
    /\ wl = [w \in WWorkers |-> NewWorkerLocals]
    /\ s3parts = <<>>
    /\ s3meta = NoMeta
    /\ cpc = "off"
    /\ cData = <<>>
    /\ cRecs = <<>>
    /\ cErr = NoErr
    /\ completed = <<>>
    /\ late = {}

(***************************************************************************)
(* hashCalc                                                                *)
(***************************************************************************)
\* The entries the reorder buffer hands to its writer function once index
\* `from` is present: the longest run from, from+1, ... held in the buffer.
RECURSIVE HeldRun(_, _)
HeldRun(held, from) ==
    IF from \in DOMAIN held
    THEN <<held[from]>> \o HeldRun(held, from + 1)
    ELSE <<>>

\* a hashCalc that feeds each hash to the aggregate as it arrives
HashCalcAddArrival(hc, idx, hash) ==
    [hc EXCEPT !.next = @ + 1, !.h = @ \o <<hash>>, !.hipart = hc.next + 1]

\* hashCalc.add(pn, h): reorder.Buffer.Add stores the entry and, when the
\* next expected index is present, passes the contiguous run to the writer
\* function, which feeds each hash, newline-terminated, to hc.h and sets
\* hipart = n + len(buf).
HashCalcAdd(hc, idx, hash) ==
    LET held == [i \in (DOMAIN hc.held) \cup {idx} |->
                    IF i = idx THEN hash ELSE hc.held[i]]
        run == HeldRun(held, hc.next)
    IN IF run = <<>>
       THEN [hc EXCEPT !.held = held]
       ELSE [next |-> hc.next + Len(run),
             held |-> [i \in {j \in DOMAIN held : j >= hc.next + Len(run)} |-> held[i]],
             h |-> hc.h \o run,
             hipart |-> hc.next + Len(run)]

\* hashCalc.value(): (hipart, hex of the aggregate hash)
HashCalcValue(hc) == <<hc.hipart, Sha256Hex(hc.h)>>

(***************************************************************************)
(* Object keys                                                             *)
(***************************************************************************)
\* the digits of a part number in a part key (%09d)
PartDigits == 9

DigitChars == {"0", "1", "2", "3", "4", "5", "6", "7", "8", "9"}

\* the characters keys are made of
KeyChars == DigitChars \cup {"a", "e", "g", "j", "m", "n", "o", "p", "r", "s", "t", "x",
                             "z", "-", "."}

\* PathPrefix of the writer and pathPrefix of the deleter, a prefix without
\* regexp metacharacters
PathPrefix == <<"p">>

\* s3PartPrefix(prefix)
S3PartPrefix == PathPrefix \o <<"-", "p", "a", "r", "t", "-">>

\* s3MetaKey(prefix)
S3MetaKey == PathPrefix \o <<"-", "m", "e", "t", "a", ".", "j", "s", "o", "n">>

\* fmt.Sprintf("%09d", n) for a one-digit n
NineDigits(n) ==
    [i \in 1..PartDigits |->
        IF i = PartDigits
        THEN <<"0", "1", "2", "3", "4", "5", "6", "7", "8", "9">>[n + 1]
        ELSE "0"]

\* the key of part n
S3PartKey(n) ==
    S3PartPrefix \o NineDigits(n) \o <<".", "j", "s", "o", "n", ".", "g", "z">>

\* a newKey that hands out the current part number again
NewKeyNoAdd(pn) == [partnum |-> Max(pn, 1), path |-> S3PartKey(Max(pn, 1))]

\* S3Writer.newKey with the part counter at pn: the counter is incremented
\* atomically, and the key is formatted from the new value
NewKey(pn) == [partnum |-> pn + 1, path |-> S3PartKey(pn + 1)]

(***************************************************************************)
(* S3Writer operations                                                     *)
(***************************************************************************)
\* a latch that every call to fail overwrites
FailLastWins(err) == failed' = err

\* S3Writer.fail: the first error wins
Fail(err) == failed' = IF failed = NoErr THEN err ELSE failed

\* S3Writer.Run up to wg.Wait: the parameter checks, the first metadata
\* upload (status running) and the start of the workers.
RunStart ==
    /\ runPc = "start"
    /\ s3meta' = md
    /\ wpc' = [w \in WWorkers |-> "recv"]
    /\ runPc' = "wait"
    /\ UNCHANGED <<nonW, late, completed, runErr, md, partnum, failed, metaHash, chanClosed, wl,
                   s3parts, cpc, cRecs, cErr, cData>>

\* S3Writer.Run: the first metadata upload fails and Run returns the error
\* before any worker is started.
RunStartMetaFail ==
    /\ runPc = "start"
    /\ runPc' = "done"
    /\ runErr' = "metafail"
    /\ UNCHANGED <<nonW, late, completed, md, partnum, failed, metaHash, chanClosed, wpc, wl,
                   s3parts, s3meta, cpc, cRecs, cErr, cData>>

\* S3Writer.Run after wg.Wait: set the end time and upload the final
\* metadata, failed when a failure is latched and completed otherwise.
RunFinish ==
    /\ runPc = "wait"
    /\ \A w \in WWorkers : wpc[w] = "done"
    /\ md' = [md EXCEPT !.EndTime = TRUE,
                        !.Status = IF failed # NoErr THEN "failed" ELSE "completed"]
    /\ s3meta' = md'
    /\ runErr' = failed
    /\ runPc' = "done"
    /\ UNCHANGED <<nonW, late, completed, partnum, failed, metaHash, chanClosed, wpc, wl, s3parts,
                   cpc, cRecs, cErr, cData>>

\* S3Writer.Run after wg.Wait, the final metadata upload fails: with a
\* latched failure the upload's error is dropped and the latched error is
\* returned, otherwise Run returns the upload's error.
RunFinishMetaFail ==
    /\ runPc = "wait"
    /\ \A w \in WWorkers : wpc[w] = "done"
    /\ md' = [md EXCEPT !.EndTime = TRUE,
                        !.Status = IF failed # NoErr THEN "failed" ELSE "completed"]
    /\ runErr' = IF failed # NoErr THEN failed ELSE "metafail"
    /\ runPc' = "done"
    /\ UNCHANGED <<nonW, late, completed, partnum, failed, metaHash, chanClosed, wpc, wl, s3parts,
                   s3meta, cpc, cRecs, cErr, cData>>

\* a worker cannot create its temp file: it latches the error and returns
\* before it receives anything
WorkerTempFileFail(w) ==
    /\ wpc[w] = "recv"
    /\ wl[w] = NewWorkerLocals
    /\ Fail("tempfail")
    /\ wpc' = [wpc EXCEPT ![w] = "done"]
    /\ UNCHANGED <<nonW, late, completed, runPc, runErr, md, partnum, metaHash, chanClosed, wl,
                   s3parts, s3meta, cpc, cRecs, cErr, cData>>

\* S3Writer.Write, first half: failError() is non-nil and Write returns it
\* without sending the data.
WriteFailed ==
    /\ cpc = "write"
    /\ Len(cRecs) < MaxWrites
    /\ failed # NoErr
    /\ cErr' = failed
    /\ cpc' = "write"
    /\ UNCHANGED <<nonW, late, completed, runPc, runErr, md, partnum, failed, metaHash, chanClosed,
                   wpc, wl, s3parts, s3meta, cRecs, cData>>

\* S3Writer.Write, first half: failError() is nil, the call goes on to send a
\* copy of the data on w.data.
WriteCheck ==
    /\ cpc = "write"
    /\ Len(cRecs) < MaxWrites
    /\ failed = NoErr
    /\ \E len \in 0..MaxRecLen : cData' = RecBytes(Len(cRecs) + 1, len)
    /\ cpc' = "send"
    /\ cErr' = NoErr
    /\ UNCHANGED <<nonW, late, completed, runPc, runErr, md, partnum, failed, metaHash, chanClosed,
                   wpc, wl, s3parts, s3meta, cRecs>>

\* The position of the temp file after gzip has been handed `pendingLen`
\* bytes in all: gzip buffers, so anything from the old position up to the
\* whole pending length may be on disk.
FileSizes(l, pendingLen) == (l.fsize)..pendingLen

\* The worker loop body for one record received from w.data: a worker whose
\* failed flag is set discards it; otherwise the record is written to gzip
\* and the hasher, counted, and the part is flushed when the temp file has
\* reached PartSize.
\* a loop body that accepts the record whether or not the flag is set
WorkerAcceptAlways(l, data, fsize) ==
    [l EXCEPT !.pending = @ \o data,
              !.rawPendingLen = @ + Len(data),
              !.writeCount = @ + 1,
              !.fsize = fsize]

WorkerAccept(l, data, fsize) ==
    IF l.failed THEN l
    ELSE [l EXCEPT !.pending = @ \o data,
                   !.rawPendingLen = @ + Len(data),
                   !.writeCount = @ + 1,
                   !.fsize = fsize]

WorkerNextPc(l) ==
    IF ~l.failed /\ l.fsize >= PartSize THEN "flush" ELSE "recv"

\* S3Writer.Write, second half, together with the worker that receives the
\* data from the unbuffered channel: Write returns len(p), nil.
WorkerRecv(w) ==
    /\ cpc = "send"
    /\ wpc[w] = "recv"
    /\ ~chanClosed
    /\ \E fsize \in FileSizes(wl[w], wl[w].rawPendingLen + Len(cData)) :
        /\ wl' = [wl EXCEPT ![w] = WorkerAccept(@, cData, fsize)]
        /\ wpc' = [wpc EXCEPT ![w] = WorkerNextPc(wl'[w])]
    /\ cRecs' = Append(cRecs, Len(cData))
    /\ late' = IF failed = NoErr THEN late
               ELSE late \cup {[n |-> Len(cRecs) + 1, by |-> w, noted |-> wl[w].failed]}
    /\ cData' = <<>>
    /\ cpc' = "write"
    /\ UNCHANGED <<nonW, completed, runPc, runErr, md, partnum, failed, metaHash, chanClosed,
                   s3parts, s3meta, cErr>>

\* flush(), first part: note a latched failure, close gzip (all pending
\* bytes reach the file) and allocate the part number with newKey.
FlushStart(w) ==
    /\ wpc[w] = "flush"
    /\ partnum' = NewKey(partnum).partnum
    /\ wl' = [wl EXCEPT ![w].failed = (@ \/ failed # NoErr),
                        ![w].fsize = wl[w].rawPendingLen,
                        ![w].pn = NewKey(partnum).partnum,
                        ![w].key = NewKey(partnum).path]
    /\ wpc' = [wpc EXCEPT ![w] = "put"]
    /\ UNCHANGED <<nonW, late, completed, runPc, runErr, md, failed, metaHash, chanClosed, s3parts,
                   s3meta, cpc, cRecs, cErr, cData>>

\* where a worker continues after flush() returned an error
AfterFlushError(l) == IF l.tail THEN "done" ELSE "recv"

\* flush(), PutObject of the part succeeds: the object carries the
\* uncompressed bytes and the dyndump-sha256, dyndump-itemcount and
\* dyndump-part headers.
FlushPut(w) ==
    /\ wpc[w] = "put"
    /\ s3parts' = [k \in (DOMAIN s3parts) \cup {wl[w].pn} |->
                     IF k = wl[w].pn
                     THEN [data |-> wl[w].pending,
                           sha256 |-> Sha256Hex(wl[w].pending),
                           itemcount |-> wl[w].writeCount,
                           part |-> wl[w].pn,
                           key |-> wl[w].key]
                     ELSE s3parts[k]]
    /\ wpc' = [wpc EXCEPT ![w] = "complete"]
    /\ UNCHANGED <<nonW, late, completed, runPc, runErr, md, partnum, failed, metaHash, chanClosed,
                   wl, s3meta, cpc, cRecs, cErr, cData>>

\* flush(), PutObject of the part fails: flush returns the error, the worker
\* latches it and (in the loop) sets its failed flag.
FlushPutFail(w) ==
    /\ wpc[w] = "put"
    /\ Fail("putfail")
    /\ wl' = [wl EXCEPT ![w].failed = TRUE]
    /\ wpc' = [wpc EXCEPT ![w] = AfterFlushError(wl[w])]
    /\ UNCHANGED <<nonW, late, completed, runPc, runErr, md, partnum, metaHash, chanClosed, s3parts,
                   s3meta, cpc, cRecs, cErr, cData>>

\* S3Writer.completePart under the metadata mutex: fold the part hash into
\* the reorder buffer, bump the totals, record hash and last_hashed.
CompletePart(m, hc, l) ==
    [m EXCEPT !.UncompressedBytes = @ + l.rawPendingLen,
              !.CompressedBytes = @ + l.fsize,
              !.ItemCount = @ + l.writeCount,
              !.PartCount = @ + 1,
              !.LastHashed = HashCalcValue(hc)[1],
              !.Hash = HashCalcValue(hc)[2]]

\* the reset at the end of a successful flush()
FlushReset(l) ==
    [l EXCEPT !.rawPendingLen = 0, !.writeCount = 0, !.pending = <<>>,
              !.fsize = 0]

\* where a worker continues after flush() returned nil
AfterFlushOk(l) == IF l.tail THEN "done" ELSE "recv"

\* flush(), completePart succeeds (its metadata upload included), the temp
\* file, the hasher and the counters are reset.
FlushComplete(w) ==
    /\ wpc[w] = "complete"
    /\ metaHash' = HashCalcAdd(metaHash, wl[w].pn - 1, Sha256Hex(wl[w].pending))
    /\ md' = CompletePart(md, metaHash', wl[w])
    /\ s3meta' = md'
    /\ wl' = [wl EXCEPT ![w] = FlushReset(@)]
    /\ wpc' = [wpc EXCEPT ![w] = AfterFlushOk(wl[w])]
    /\ completed' = Append(completed, wl[w].pn)
    /\ UNCHANGED <<nonW, late, runPc, runErr, partnum, failed, chanClosed, s3parts, cpc,
                   cRecs, cErr, cData>>

\* flush(), completePart fails in its metadata upload: the metadata in
\* memory is already updated, nothing is reset, the error is latched.
FlushCompleteFail(w) ==
    /\ wpc[w] = "complete"
    /\ metaHash' = HashCalcAdd(metaHash, wl[w].pn - 1, Sha256Hex(wl[w].pending))
    /\ md' = CompletePart(md, metaHash', wl[w])
    /\ Fail("metafail")
    /\ wl' = [wl EXCEPT ![w].failed = TRUE]
    /\ wpc' = [wpc EXCEPT ![w] = AfterFlushError(wl[w])]
    /\ completed' = Append(completed, wl[w].pn)
    /\ UNCHANGED <<nonW, late, runPc, runErr, partnum, chanClosed, s3parts, s3meta, cpc,
                   cRecs, cErr, cData>>

\* whether a worker flushes its tail once w.data is closed
TailFlushNeeded(l) == l.rawPendingLen > 0 /\ ~l.failed

\* The worker's range loop ends because w.data is closed: flush the tail if
\* there is one, then exit (wg.Done).
WorkerDrained(w) ==
    /\ wpc[w] = "recv"
    /\ chanClosed
    /\ wl' = [wl EXCEPT ![w].tail = TRUE]
    /\ wpc' = [wpc EXCEPT ![w] = IF TailFlushNeeded(wl[w]) THEN "flush" ELSE "done"]
    /\ UNCHANGED <<nonW, late, completed, runPc, runErr, md, partnum, failed, metaHash, chanClosed,
                   s3parts, s3meta, cpc, cRecs, cErr, cData>>

\* S3Writer.Close: close(w.data) and return the latched error
Close ==
    /\ cpc = "write"
    /\ chanClosed' = TRUE
    /\ cErr' = failed
    /\ cpc' = "closed"
    /\ UNCHANGED <<nonW, late, completed, runPc, runErr, md, partnum, failed, metaHash, wpc, wl,
                   s3parts, s3meta, cRecs, cData>>

\* S3Writer.Abort: latch "aborted", then Close
Abort ==
    /\ cpc = "write"
    /\ Fail("aborted")
    /\ chanClosed' = TRUE
    /\ cErr' = failed'
    /\ cpc' = "closed"
    /\ UNCHANGED <<nonW, late, completed, runPc, runErr, md, partnum, metaHash, wpc, wl, s3parts,
                   s3meta, cRecs, cData>>

\* the writer with an object store whose puts all succeed and a client that
\* writes its records and then closes
WNext ==
    \/ RunStart
    \/ RunFinish
    \/ WriteCheck
    \/ Close
    \/ \E w \in WWorkers :
        \/ WorkerRecv(w)
        \/ FlushStart(w)
        \/ FlushPut(w)
        \/ FlushComplete(w)
        \/ WorkerDrained(w)

\* the failures of the object store and the client's Abort
WFaults ==
    \/ RunStartMetaFail
    \/ RunFinishMetaFail
    \/ WriteFailed
    \/ Abort
    \/ \E w \in WWorkers :
        \/ WorkerTempFileFail(w)
        \/ FlushPutFail(w)
        \/ FlushCompleteFail(w)

\* the steps of Run and of the workers that need no call from the client:
\* the goroutines are scheduled and the calls to the object store return
WProgress ==
    \/ RunStart
    \/ RunFinish
    \/ \E w \in WWorkers :
        \/ FlushStart(w)
        \/ FlushPut(w)
        \/ FlushComplete(w)
        \/ WorkerDrained(w)

\* the same with an object store whose calls return with or without an error
WFaultyProgress ==
    \/ WProgress
    \/ RunStartMetaFail
    \/ RunFinishMetaFail
    \/ \E w \in WWorkers :
        \/ FlushPutFail(w)
        \/ FlushCompleteFail(w)

(***************************************************************************)
(* S3Reader                                                                *)
(***************************************************************************)
\* most part objects under the prefix
MaxParts == 3
\* longest part body, in bytes
MaxBodyLen == 2
\* most keys on one page of the listing
MaxPageSize == 2
\* Read calls a consumer makes after a Read returned an error
MaxReadsAfterEnd == 1

\* error values of the reader; key is the part key a mismatch names
RErr(kind, key) == [kind |-> kind, key |-> key]

RNil == RErr("nil", 0)

\* io.EOF
REOF == RErr("EOF", 0)

\* a dyndump-sha256 header that is the digest of bytes no part contains
BadHash == Sha256Hex(<< <<0, 0>> >>)

\* the body lengths drawn: an empty body and one of several bytes
BodyLens == {0, MaxBodyLen}

\* the part objects that can be stored under the k-th key
ObjectsOf(k) ==
    UNION {{[key |-> k, body |-> RecBytes(k, len), sha |-> s] :
               s \in {Sha256Hex(RecBytes(k, len)), BadHash, NoHash}} :
           len \in BodyLens}

\* the listings of n keys, in key order
RECURSIVE ListingsOf(_)
ListingsOf(n) ==
    IF n = 0 THEN {<<>>}
    ELSE {Append(l, o) : l \in ListingsOf(n - 1), o \in ObjectsOf(n)}

\* the listings of up to MaxParts keys
Listings == UNION {ListingsOf(n) : n \in 0..MaxParts}

\* ListObjectsPages: the listing cut into pages of at most ps keys (a single
\* empty page for an empty listing)
Paginate(l, ps) ==
    LET np == Max(1, (Len(l) + ps - 1) \div ps)
    IN [i \in 1..np |-> SubSeq(l, (i - 1) * ps + 1, Min(i * ps, Len(l)))]

\* the hash the S3Writer records for a run that uploaded the bodies of l
AggregateOf(l) == Sha256Hex([k \in 1..Len(l) |-> Sha256Hex(l[k].body)])

\* the metadata objects that can be stored beside the listing l
MetadataOf(l) ==
    UNION {{[PartCount |-> pc, Hash |-> h, LastHashed |-> lh] :
               h \in {NoHash, AggregateOf(l), Sha256Hex(<<BadHash>>)},
               lh \in {pc - 1, pc}} :
           pc \in {0, Len(l) - 1, Len(l), Len(l) + 1} \cap Nat}

\* the bucket holding the listing l in pages of ps keys beside the metadata
\* m, read with SkipIntegrityCheck sk
Store(l, ps, m, sk) == [pages |-> Paginate(l, ps), meta |-> m, skip |-> sk]

NoStore == [pages |-> <<>>, meta |-> NoMeta, skip |-> FALSE]

\* locals of the reader goroutine at its start
NewReaderLocals ==
    [page |-> 1, idx |-> 1, off |-> 0, partHash |-> <<>>, aggHash |-> <<>>,
     partCount |-> 0, closed |-> FALSE]

NoPipe == [made |-> FALSE, done |-> FALSE, werr |-> RNil]

\* io.Pipe()
NewPipe == [made |-> TRUE, done |-> FALSE, werr |-> RNil]

\* a reader that is constructed on the bucket st and not yet read from
RStart(st) ==
    /\ rStore = st
    /\ rPipe = NoPipe
    /\ rdPc = "off"
    /\ rd = NewReaderLocals
    /\ rcPc = "idle"
    /\ rErr = RNil
    /\ rOut = <<>>
    /\ rRet = [n |-> 0, err |-> RNil]
    /\ rAfter = 0
    /\ rFail = RNil

\* a reader pointed at any of the buckets within the bounds
RInit ==
    \E l \in Listings, ps \in 1..MaxPageSize, sk \in BOOLEAN :
        \E m \in MetadataOf(l) : RStart(Store(l, ps, m, sk))

\* a reader that is never constructed
RIdle ==
    /\ rStore = NoStore
    /\ rPipe = NoPipe
    /\ rdPc = "off"
    /\ rd = NewReaderLocals
    /\ rcPc = "off"
    /\ rErr = RNil
    /\ rOut = <<>>
    /\ rRet = [n |-> 0, err |-> RNil]
    /\ rAfter = 0
    /\ rFail = RNil

\* a pipe on which every close replaces the error of the one before
CloseWithErrorLastWins(p, err) ==
    [p EXCEPT !.done = TRUE, !.werr = IF err = RNil THEN REOF ELSE err]

\* a pipe on which a close drops the error it is given
CloseDropsError(p, err) == IF p.done THEN p ELSE [p EXCEPT !.done = TRUE, !.werr = REOF]

\* PipeWriter.CloseWithError (Close is CloseWithError(nil)): the first close
\* decides the error the read side sees, nil meaning io.EOF
CloseWithError(p, err) ==
    IF p.done THEN p
    ELSE [p EXCEPT !.done = TRUE, !.werr = IF err = RNil THEN REOF ELSE err]

\* whether the goroutine is inside the page callback with a key to fetch
HasKey ==
    /\ rd.page <= Len(rStore.pages)
    /\ rd.idx <= Len(rStore.pages[rd.page])

\* the part object the goroutine is at
CurObject == rStore.pages[rd.page][rd.idx]

\* S3Reader.Read, first call: create the pipe, fetch the metadata, start the
\* reader goroutine and enter r.r.Read.
ReadFirst ==
    /\ rcPc = "idle"
    /\ rErr = RNil
    /\ ~rPipe.made
    /\ rPipe' = NewPipe
    /\ rdPc' = "list"
    /\ rcPc' = "pipe"
    /\ UNCHANGED <<nonR, rStore, rd, rErr, rOut, rRet, rAfter, rFail>>

\* S3Reader.Read, first call, Metadata() fails: the pipe exists, no goroutine
\* is started, r.err is not set and the call returns the error.
ReadFirstMetaFail ==
    /\ rcPc = "idle"
    /\ rErr = RNil
    /\ ~rPipe.made
    /\ rPipe' = NewPipe
    /\ rRet' = [n |-> 0, err |-> RErr("metaerr", 0)]
    /\ UNCHANGED <<nonR, rStore, rdPc, rd, rcPc, rErr, rOut, rAfter, rFail>>

\* S3Reader.Read, a later call with r.err nil: enter r.r.Read
ReadAgain ==
    /\ rcPc = "idle"
    /\ rErr = RNil
    /\ rPipe.made
    /\ rcPc' = "pipe"
    /\ UNCHANGED <<nonR, rStore, rPipe, rdPc, rd, rErr, rOut, rRet, rAfter, rFail>>

\* S3Reader.Read with r.err set: `return 0, err` returns the named result
\* err, which is nil at that point.
ReadAfterError ==
    /\ rcPc = "idle"
    /\ rErr # RNil
    /\ rAfter < MaxReadsAfterEnd
    /\ rAfter' = rAfter + 1
    /\ rRet' = [n |-> 0, err |-> RNil]
    /\ UNCHANGED <<nonR, rStore, rPipe, rdPc, rd, rcPc, rErr, rOut, rFail>>

\* r.r.Read on a pipe whose write side is closed: the close error is kept in
\* r.err and returned.
PipeReadClosed ==
    /\ rcPc = "pipe"
    /\ rPipe.done
    /\ rErr' = rPipe.werr
    /\ rRet' = [n |-> 0, err |-> rPipe.werr]
    /\ rcPc' = "idle"
    /\ UNCHANGED <<nonR, rStore, rPipe, rdPc, rd, rOut, rAfter, rFail>>

\* io.Copy into MultiWriter(r.w, partHash) meets r.r.Read: n bytes of the
\* body pass through the pipe to the consumer and into the part hash.
Transfer ==
    /\ rcPc = "pipe"
    /\ rdPc = "copy"
    /\ ~rPipe.done
    /\ \E n \in 1..(Len(CurObject.body) - rd.off) :
        LET chunk == SubSeq(CurObject.body, rd.off + 1, rd.off + n)
        IN /\ rOut' = rOut \o chunk
           /\ rRet' = [n |-> n, err |-> RNil]
           /\ rd' = [rd EXCEPT !.off = @ + n, !.partHash = @ \o chunk]
    /\ rcPc' = "idle"
    /\ UNCHANGED <<nonR, rStore, rPipe, rdPc, rErr, rAfter, rFail>>

\* the page callback: GetObject of the next key succeeds
GetObject ==
    /\ rdPc = "list"
    /\ HasKey
    /\ rdPc' = "copy"
    /\ rd' = [rd EXCEPT !.off = 0]
    /\ UNCHANGED <<nonR, rStore, rPipe, rcPc, rErr, rOut, rRet, rAfter, rFail>>

\* the page callback: GetObject fails, the pipe is closed with the error and
\* the listing is stopped
GetObjectFail ==
    /\ rdPc = "list"
    /\ HasKey
    /\ rPipe' = CloseWithError(rPipe, RErr("geterr", CurObject.key))
    /\ rFail' = RErr("geterr", CurObject.key)
    /\ rd' = [rd EXCEPT !.closed = TRUE]
    /\ rdPc' = "exit"
    /\ UNCHANGED <<nonR, rStore, rcPc, rErr, rOut, rRet, rAfter>>

\* the page callback returns true at the end of a page
PageDone ==
    /\ rdPc = "list"
    /\ rd.page <= Len(rStore.pages)
    /\ rd.idx > Len(rStore.pages[rd.page])
    /\ rd' = [rd EXCEPT !.page = @ + 1, !.idx = 1]
    /\ UNCHANGED <<nonR, rStore, rPipe, rdPc, rcPc, rErr, rOut, rRet, rAfter, rFail>>

\* a part check that leaves the bytes of the part in the part hash
CheckPartNoReset(l, obj, skip) ==
    [l EXCEPT !.aggHash = IF obj.sha # NoHash /\ ~skip
                          THEN Append(@, Sha256Hex(l.partHash)) ELSE @,
              !.partCount = @ + 1,
              !.idx = @ + 1]

\* the hash check of a part once its body is copied: the stored hash, when
\* present and checks are on, is compared with the hash of the bytes copied;
\* a mismatch closes the pipe with an error naming the key, and in both
\* cases the hash computed is appended to the aggregate.
CheckPart(l, obj, skip) ==
    [l EXCEPT !.aggHash = IF obj.sha # NoHash /\ ~skip
                          THEN Append(@, Sha256Hex(l.partHash)) ELSE @,
              !.partHash = <<>>,
              !.partCount = @ + 1,
              !.idx = @ + 1]

PartMismatch(l, obj, skip) ==
    obj.sha # NoHash /\ ~skip /\ Sha256Hex(l.partHash) # obj.sha

\* io.Copy returns nil at the end of the body; the part is checked and the
\* callback goes on to the next key
CopyDone ==
    /\ rdPc = "copy"
    /\ rd.off = Len(CurObject.body)
    /\ rPipe' = IF PartMismatch(rd, CurObject, rStore.skip)
                THEN CloseWithError(rPipe, RErr("mismatch", CurObject.key))
                ELSE rPipe
    /\ rd' = CheckPart(rd, CurObject, rStore.skip)
    /\ rdPc' = "list"
    /\ UNCHANGED <<nonR, rStore, rcPc, rErr, rOut, rRet, rAfter, rFail>>

\* io.Copy fails writing to a pipe that is already closed: the pipe is
\* closed again (to no effect) and the listing is stopped
CopyClosed ==
    /\ rdPc = "copy"
    /\ rd.off < Len(CurObject.body)
    /\ rPipe.done
    /\ rPipe' = CloseWithError(rPipe, RErr("closedpipe", 0))
    /\ rd' = [rd EXCEPT !.closed = TRUE]
    /\ rdPc' = "exit"
    /\ UNCHANGED <<nonR, rStore, rcPc, rErr, rOut, rRet, rAfter, rFail>>

\* io.Copy fails reading the body
CopyReadFail ==
    /\ rdPc = "copy"
    /\ rPipe' = CloseWithError(rPipe, RErr("readerr", CurObject.key))
    /\ rFail' = RErr("readerr", CurObject.key)
    /\ rd' = [rd EXCEPT !.closed = TRUE]
    /\ rdPc' = "exit"
    /\ UNCHANGED <<nonR, rStore, rcPc, rErr, rOut, rRet, rAfter>>

\* an end of listing that checks the aggregate hash only
EndOfListErrorHashOnly(l, m, skip) ==
    IF /\ ~skip
       /\ m.Hash # NoHash
       /\ m.LastHashed = m.PartCount
       /\ Sha256Hex(l.aggHash) # m.Hash
    THEN RErr("corrupt", 0)
    ELSE RNil

\* an end of listing that checks the part count only
EndOfListErrorCountOnly(l, m, skip) ==
    IF m.PartCount > 0 /\ l.partCount # m.PartCount
    THEN RErr("incomplete", 0)
    ELSE RNil

\* the error, if any, the reader goroutine closes the pipe with after the
\* listing ended without an error: the part count check, then the check of
\* the aggregate hash
EndOfListError(l, m, skip) ==
    IF m.PartCount > 0 /\ l.partCount # m.PartCount
    THEN RErr("incomplete", 0)
    ELSE IF /\ ~skip
            /\ m.Hash # NoHash
            /\ m.LastHashed = m.PartCount
            /\ Sha256Hex(l.aggHash) # m.Hash
         THEN RErr("corrupt", 0)
         ELSE RNil

\* ListObjectsPages returns nil after the last page
ListEnd ==
    /\ rdPc = "list"
    /\ rd.page > Len(rStore.pages)
    /\ rPipe' = CloseWithError(rPipe, EndOfListError(rd, rStore.meta, rStore.skip))
    /\ rdPc' = "exit"
    /\ UNCHANGED <<nonR, rStore, rd, rcPc, rErr, rOut, rRet, rAfter, rFail>>

\* ListObjectsPages returns an error, before the first page or after a page
ListFail ==
    /\ rdPc = "list"
    /\ rd.idx = 1
    /\ rPipe' = CloseWithError(rPipe, RErr("listerr", 0))
    /\ rFail' = RErr("listerr", 0)
    /\ rdPc' = "exit"
    /\ UNCHANGED <<nonR, rStore, rd, rcPc, rErr, rOut, rRet, rAfter>>

\* the reader on a bucket whose list and get calls all succeed
RNext ==
    \/ ReadFirst
    \/ ReadAgain
    \/ ReadAfterError
    \/ PipeReadClosed
    \/ Transfer
    \/ GetObject
    \/ PageDone
    \/ CopyDone
    \/ CopyClosed
    \/ ListEnd

\* the failures of the bucket's calls
RFaults ==
    \/ ReadFirstMetaFail
    \/ GetObjectFail
    \/ CopyReadFail
    \/ ListFail

(***************************************************************************)
(* Loader                                                                  *)
(***************************************************************************)
\* Loader.MaxParallel, the number of writer goroutines
LMaxParallel == 2
\* most items the Source yields before its end
MaxSource == 3
\* number of distinct hash keys
MaxKeys == 3
\* most Stop calls the user of the Loader makes
MaxUserStops == 1

\* capacity of stopRequest
StopRequestCap == 2

LWorkers == 1..LMaxParallel

\* the i-th item of a source stream: its hash key and a value that tells the
\* items of the stream apart
SourceItem(k, i) == [key |-> k, val |-> i]

\* the source streams: n items with any hash keys
Sources ==
    UNION {{[i \in 1..n |-> SourceItem(ks[i], i)] : ks \in [1..n -> 1..MaxKeys]} :
           n \in 0..MaxSource}

\* the row a table holds under hash key k before the load
OldRow(k) == [key |-> k, val |-> 0]

\* the tables before the load: any set of hash keys
Tables == {[k \in ks |-> OldRow(k)] : ks \in SUBSET (1..MaxKeys)}

NoItem == [key |-> 0, val |-> 0]

\* a Loader constructed on the source src and not yet run
LStart(src, maxItems, allowOverwrite, t) ==
    /\ ldCfg = [source |-> src, MaxItems |-> maxItems,
                AllowOverwrite |-> allowOverwrite, table0 |-> t]
    /\ table = t
    /\ ldRun = [pc |-> "start", err |-> NoErr, rem |-> 0, i |-> 0, ret |-> NoErr]
    /\ ldStop = [request |-> 0, notify |-> FALSE, stopper |-> "off", user |-> 0,
                 blocked |-> 0, nilBlocked |-> 0]
    /\ ldReader = [pc |-> "off", rc |-> 0, item |-> NoItem, pos |-> 0, res |-> NoErr]
    /\ errChan = <<>>
    /\ ldw = [w \in LWorkers |-> [pc |-> "off", item |-> NoItem]]
    /\ ldStats = [itemsWritten |-> 0, itemsSkipped |-> 0]
    /\ ldPuts = <<>>

LInit ==
    \E src \in Sources, maxItems \in 0..MaxSource, ao \in BOOLEAN, t \in Tables :
        LStart(src, maxItems, ao, t)

\* a Loader that is never constructed
LIdle ==
    /\ ldCfg = [source |-> <<>>, MaxItems |-> 0, AllowOverwrite |-> FALSE,
                table0 |-> <<>>]
    /\ table = <<>>
    /\ ldRun = [pc |-> "off", err |-> NoErr, rem |-> 0, i |-> 0, ret |-> NoErr]
    /\ ldStop = [request |-> 0, notify |-> FALSE, stopper |-> "off", user |-> 0,
                 blocked |-> 0, nilBlocked |-> 0]
    /\ ldReader = [pc |-> "off", rc |-> 0, item |-> NoItem, pos |-> 0, res |-> NoErr]
    /\ errChan = <<>>
    /\ ldw = [w \in LWorkers |-> [pc |-> "off", item |-> NoItem]]
    /\ ldStats = [itemsWritten |-> 0, itemsSkipped |-> 0]
    /\ ldPuts = <<>>

\* Loader.Run up to its select: make the channels, start the stopper, the
\* reader goroutine and the writer goroutines
LRunStart ==
    /\ ldRun.pc = "start"
    /\ ldRun' = [ldRun EXCEPT !.pc = "select", !.rem = LMaxParallel]
    /\ ldStop' = [ldStop EXCEPT !.stopper = "wait"]
    /\ ldReader' = [ldReader EXCEPT !.pc = "loop"]
    /\ ldw' = [w \in LWorkers |-> [ldw[w] EXCEPT !.pc = "select"]]
    /\ UNCHANGED <<nonL, ldCfg, table, errChan, ldStats, ldPuts>>

\* the stopper goroutine: receive one stop request, close stopNotify
Stopper ==
    /\ ldStop.stopper = "wait"
    /\ ldStop.request > 0
    /\ ldStop' = [ldStop EXCEPT !.request = @ - 1, !.notify = TRUE,
                                !.stopper = "done"]
    /\ UNCHANGED <<nonL, ldCfg, table, ldRun, ldReader, errChan, ldw, ldStats, ldPuts>>

\* Loader.Stop called by the user of the Loader while Run is running: a send
\* on stopRequest, which waits while the buffer is full
LoaderStop ==
    /\ ldRun.pc \notin {"start", "off"}
    /\ ldStop.user < MaxUserStops
    /\ ldStop.request < StopRequestCap
    /\ ldStop' = [ldStop EXCEPT !.request = @ + 1, !.user = @ + 1]
    /\ UNCHANGED <<nonL, ldCfg, table, ldRun, ldReader, errChan, ldw, ldStats, ldPuts>>

\* the reader goroutine at its select: stopNotify is closed, report nil
ReaderStopped ==
    /\ ldReader.pc = "loop"
    /\ ldStop.notify
    /\ ldReader' = [ldReader EXCEPT !.pc = "report", !.res = NoErr]
    /\ UNCHANGED <<nonL, ldCfg, table, ldRun, ldStop, errChan, ldw, ldStats, ldPuts>>

\* the reader goroutine at its select, default case: ReadItem returns the
\* next item of the source
ReaderRead ==
    /\ ldReader.pc = "loop"
    /\ ~ldStop.notify
    /\ ldReader.pos < Len(ldCfg.source)
    /\ ldReader' = [ldReader EXCEPT !.pc = "send",
                                    !.item = ldCfg.source[ldReader.pos + 1],
                                    !.pos = @ + 1]
    /\ UNCHANGED <<nonL, ldCfg, table, ldRun, ldStop, errChan, ldw, ldStats, ldPuts>>

\* the reader goroutine at its select, default case: ReadItem returns io.EOF
ReaderEOF ==
    /\ ldReader.pc = "loop"
    /\ ~ldStop.notify
    /\ ldReader.pos = Len(ldCfg.source)
    /\ ldReader' = [ldReader EXCEPT !.pc = "report", !.res = NoErr]
    /\ UNCHANGED <<nonL, ldCfg, table, ldRun, ldStop, errChan, ldw, ldStats, ldPuts>>

\* the reader goroutine at its select, default case: ReadItem returns an
\* error other than io.EOF
ReaderReadFail ==
    /\ ldReader.pc = "loop"
    /\ ~ldStop.notify
    /\ ldReader' = [ldReader EXCEPT !.pc = "report", !.res = "readerr"]
    /\ UNCHANGED <<nonL, ldCfg, table, ldRun, ldStop, errChan, ldw, ldStats, ldPuts>>

\* where the reader goroutine goes after an item is handed over: rc is
\* counted and compared with MaxItems
AfterSend(rd0, maxItems) ==
    [rd0 EXCEPT !.rc = @ + 1,
                !.item = NoItem,
                !.pc = IF rd0.rc + 1 = maxItems THEN "report" ELSE "loop",
                !.res = NoErr]

\* a writer goroutine's select takes the item the reader goroutine is
\* sending on itemsChan (unbuffered)
LoadRecv(w) ==
    /\ ldw[w].pc = "select"
    /\ ldReader.pc = "send"
    /\ ldw' = [ldw EXCEPT ![w] = [pc |-> "put", item |-> ldReader.item]]
    /\ ldReader' = AfterSend(ldReader, ldCfg.MaxItems)
    /\ UNCHANGED <<nonL, ldCfg, table, ldRun, ldStop, errChan, ldStats, ldPuts>>

\* a writer goroutine's select takes the closed stopNotify: report nil on
\* doneChan (errChan, never full) and return
LoadStopped(w) ==
    /\ ldw[w].pc = "select"
    /\ ldStop.notify
    /\ errChan' = Append(errChan, NoErr)
    /\ ldw' = [ldw EXCEPT ![w].pc = "exit"]
    /\ UNCHANGED <<nonL, ldCfg, table, ldRun, ldStop, ldReader, ldStats, ldPuts>>

\* a request that never carries a condition
Unconditional(cfg) == FALSE

\* whether the PutItem request carries the attribute_not_exists condition on
\* the hash key
Conditional(cfg) == ~cfg.AllowOverwrite

\* DynamoDB PutItem: a conditional put fails with
\* ConditionalCheckFailedException when a row with the item's key exists
ConditionalCheckFailed(t, item, cond) == cond /\ item.key \in DOMAIN t

\* DynamoDB PutItem: the row under the item's key is created or replaced
PutItem(t, item) ==
    [k \in (DOMAIN t) \cup {item.key} |-> IF k = item.key THEN item ELSE t[k]]

\* a writer goroutine puts the item it holds: a failed condition counts the
\* item as skipped, a successful put counts it as written; in both cases
\* the goroutine goes back to its select
LoadPut(w) ==
    /\ ldw[w].pc = "put"
    /\ LET item == ldw[w].item
           skip == ConditionalCheckFailed(table, item, Conditional(ldCfg))
       IN /\ table' = IF skip THEN table ELSE PutItem(table, item)
          /\ ldStats' = IF skip
                        THEN [ldStats EXCEPT !.itemsSkipped = @ + 1]
                        ELSE [ldStats EXCEPT !.itemsWritten = @ + 1]
          /\ ldPuts' = Append(ldPuts, [item |-> item,
                                       outcome |-> IF skip THEN "skipped" ELSE "written",
                                       before |-> table])
    /\ ldw' = [ldw EXCEPT ![w] = [pc |-> "select", item |-> NoItem]]
    /\ UNCHANGED <<nonL, ldCfg, ldRun, ldStop, ldReader, errChan>>

\* a writer goroutine's PutItem fails with another error: report it on
\* doneChan and return
LoadPutFail(w) ==
    /\ ldw[w].pc = "put"
    /\ errChan' = Append(errChan, "puterr")
    /\ ldPuts' = Append(ldPuts, [item |-> ldw[w].item, outcome |-> "failed",
                                 before |-> table])
    /\ ldw' = [ldw EXCEPT ![w] = [pc |-> "exit", item |-> NoItem]]
    /\ UNCHANGED <<nonL, ldCfg, table, ldRun, ldStop, ldReader, ldStats>>

\* Run's select receives the reader goroutine's report on readDone
RunReadDone ==
    /\ ldRun.pc = "select"
    /\ ldReader.pc = "report"
    /\ ldRun' = [ldRun EXCEPT !.err = ldReader.res, !.pc = "stop"]
    /\ ldReader' = [ldReader EXCEPT !.pc = "exit"]
    /\ UNCHANGED <<nonL, ldCfg, table, ldStop, errChan, ldw, ldStats, ldPuts>>

\* Run's select receives a writer goroutine's report on errChan
RunErrChan ==
    /\ ldRun.pc = "select"
    /\ errChan # <<>>
    /\ ldRun' = [ldRun EXCEPT !.err = Head(errChan), !.rem = @ - 1, !.pc = "stop"]
    /\ errChan' = Tail(errChan)
    /\ UNCHANGED <<nonL, ldCfg, table, ldStop, ldReader, ldw, ldStats, ldPuts>>

\* Run calls ld.Stop() after its select
RunStop ==
    /\ ldRun.pc = "stop"
    /\ ldStop.request < StopRequestCap
    /\ ldStop' = [ldStop EXCEPT !.request = @ + 1]
    /\ ldRun' = [ldRun EXCEPT !.pc = "drain"]
    /\ UNCHANGED <<nonL, ldCfg, table, ldReader, errChan, ldw, ldStats, ldPuts>>

\* a drain loop that gives up one report early
DrainDoneEarly(run) == run.i >= run.rem - 1

\* the drain loop's condition i < rem is false
DrainDone(run) == run.i >= run.rem

\* Run's drain loop receives one more report; the first non-nil one when err
\* is still nil is kept and followed by another send on stopRequest
RunDrain ==
    /\ ldRun.pc = "drain"
    /\ ~DrainDone(ldRun)
    /\ errChan # <<>>
    /\ LET werr == Head(errChan)
           first == werr # NoErr /\ ldRun.err = NoErr
       IN /\ first => ldStop.request < StopRequestCap
          /\ ldRun' = [ldRun EXCEPT !.err = IF first THEN werr ELSE @, !.i = @ + 1]
          /\ ldStop' = IF first THEN [ldStop EXCEPT !.request = @ + 1] ELSE ldStop
    /\ errChan' = Tail(errChan)
    /\ UNCHANGED <<nonL, ldCfg, table, ldReader, ldw, ldStats, ldPuts>>

\* Run returns err
RunReturn ==
    /\ ldRun.pc = "drain"
    /\ DrainDone(ldRun)
    /\ ldRun' = [ldRun EXCEPT !.pc = "done", !.ret = ldRun.err]
    /\ UNCHANGED <<nonL, ldCfg, table, ldStop, ldReader, errChan, ldw, ldStats, ldPuts>>

\* the Loader with a source that ends with io.EOF, puts that fail only on
\* their condition, and a user who may call Stop
LNext ==
    \/ LRunStart
    \/ Stopper
    \/ LoaderStop
    \/ ReaderStopped
    \/ ReaderRead
    \/ ReaderEOF
    \/ RunReadDone
    \/ RunErrChan
    \/ RunStop
    \/ RunDrain
    \/ RunReturn
    \/ \E w \in LWorkers :
        \/ LoadRecv(w)
        \/ LoadStopped(w)
        \/ LoadPut(w)

\* the failures of the source and of PutItem
LFaults ==
    \/ ReaderReadFail
    \/ \E w \in LWorkers : LoadPutFail(w)

\* most Stop calls of the users of a Loader whose Stop calls may come at any
\* time
MaxStopCalls == 3

\* a Loader on a source of distinct keys and an empty table, with MaxItems
\* unset and overwrite allowed
LStopsInit ==
    \E n \in 0..MaxSource :
        LStart([i \in 1..n |-> SourceItem(i, i)], 0, TRUE, <<>>)

\* Loader.Stop called at any time: before Run has made stopRequest the send
\* is on a nil channel and waits for ever; later it completes if the buffer
\* has room and waits otherwise
StopCall ==
    /\ ldRun.pc # "off"
    /\ ldStop.user < MaxStopCalls
    /\ ldStop' = IF ldRun.pc = "start"
                 THEN [ldStop EXCEPT !.user = @ + 1, !.nilBlocked = @ + 1]
                 ELSE IF ldStop.request < StopRequestCap
                 THEN [ldStop EXCEPT !.user = @ + 1, !.request = @ + 1]
                 ELSE [ldStop EXCEPT !.user = @ + 1, !.blocked = @ + 1]
    /\ UNCHANGED <<nonL, ldCfg, table, ldRun, ldReader, errChan, ldw, ldStats, ldPuts>>

\* a Stop call that waited on the full stopRequest completes its send
StopCallResumes ==
    /\ ldStop.blocked > 0
    /\ ldStop.request < StopRequestCap
    /\ ldStop' = [ldStop EXCEPT !.blocked = @ - 1, !.request = @ + 1]
    /\ UNCHANGED <<nonL, ldCfg, table, ldRun, ldReader, errChan, ldw, ldStats, ldPuts>>

\* Stop calls at any time
LStops ==
    \/ StopCall
    \/ StopCallResumes

(***************************************************************************)
(* Fetcher                                                                 *)
(***************************************************************************)
\* Fetcher.MaxParallel, the number of segments scanned in parallel
FMaxParallel == 2
\* most items in the scanned table
MaxScanItems == 3
\* most items one Scan call returns
MaxScanPage == 2
\* most Stop calls the user of the Fetcher makes
MaxFetcherStops == 1

FWorkers == 1..FMaxParallel

\* the items of the table `items` that an assignment of its items to segments
\* puts in segment w, in scan order
RECURSIVE SegmentOf(_, _, _, _)
SegmentOf(items, assign, w, i) ==
    IF i > Len(assign) THEN <<>>
    ELSE (IF assign[i] = w THEN <<items[i]>> ELSE <<>>)
         \o SegmentOf(items, assign, w, i + 1)

\* the ways a table is split into one segment per goroutine
SegmentationsOf(items) ==
    {[w \in FWorkers |-> SegmentOf(items, assign, w, 1)] :
        assign \in [1..Len(items) -> FWorkers]}

\* the scanned tables: n items with distinct keys, each in one segment
Segmentations ==
    UNION {SegmentationsOf([i \in 1..n |-> SourceItem(i, i)]) : n \in 0..MaxScanItems}

\* a nil key: no ExclusiveStartKey in a request, no LastEvaluatedKey in a
\* response (the keys of items are their positions, from 0)
NoKey == -1

\* the ScanInput before processSegment is called
NoParams == [Segment |-> 0, TotalSegments |-> 0, ExclusiveStartKey |-> NoKey]

\* the ScanInput processSegment(segNum) starts with
NewParams(segNum) ==
    [Segment |-> segNum, TotalSegments |-> FMaxParallel, ExclusiveStartKey |-> NoKey]

\* locals of a segment goroutine: params is its ScanInput, scanned whether a
\* Scan call has returned, resp the items of the current response, k the
\* index of its next item, last whether the response carried a
\* LastEvaluatedKey and lastKey that key; pos counts the items of the table
\* segment up to the last one the response covered
NewSegmentLocals ==
    [pc |-> "off", params |-> NoParams, scanned |-> FALSE, pos |-> 0, resp |-> <<>>,
     k |-> 1, last |-> FALSE, lastKey |-> NoKey]

FStart(segs, maxItems, limit) ==
    /\ fCfg = [segments |-> segs, MaxItems |-> maxItems, Limit |-> limit]
    /\ fRun = [pc |-> "start", err |-> NoErr, i |-> 0, ret |-> NoErr]
    /\ fStop = [request |-> 0, notify |-> FALSE, stopper |-> "off", user |-> 0]
    /\ fErrChan = <<>>
    /\ fReports = <<>>
    /\ fw = [w \in FWorkers |-> NewSegmentLocals]
    /\ fStats = [itemsRead |-> 0]
    /\ sink = <<>>

FInit ==
    \E segs \in Segmentations, maxItems \in 0..MaxScanItems, limit \in 1..MaxScanPage :
        FStart(segs, maxItems, limit)

\* a Fetcher that is never constructed
FIdle ==
    /\ fCfg = [segments |-> [w \in FWorkers |-> <<>>], MaxItems |-> 0, Limit |-> 1]
    /\ fRun = [pc |-> "off", err |-> NoErr, i |-> 0, ret |-> NoErr]
    /\ fStop = [request |-> 0, notify |-> FALSE, stopper |-> "off", user |-> 0]
    /\ fErrChan = <<>>
    /\ fReports = <<>>
    /\ fw = [w \in FWorkers |-> NewSegmentLocals]
    /\ fStats = [itemsRead |-> 0]
    /\ sink = <<>>

\* Fetcher.Run up to its wait loop: make the channels, start the stopper and
\* one goroutine per segment
FRunStart ==
    /\ fRun.pc = "start"
    /\ fRun' = [fRun EXCEPT !.pc = "wait"]
    /\ fStop' = [fStop EXCEPT !.stopper = "wait"]
    /\ fw' = [w \in FWorkers |-> [fw[w] EXCEPT !.pc = "loop", !.params = NewParams(w - 1)]]
    /\ UNCHANGED <<nonF, fCfg, fErrChan, fReports, fStats, sink>>

\* the stopper goroutine: receive one stop request, close stopNotify
FStopper ==
    /\ fStop.stopper = "wait"
    /\ fStop.request > 0
    /\ fStop' = [fStop EXCEPT !.request = @ - 1, !.notify = TRUE, !.stopper = "done"]
    /\ UNCHANGED <<nonF, fCfg, fRun, fErrChan, fReports, fw, fStats, sink>>

\* Fetcher.Stop called by the user while Run is running: a send on
\* stopRequest, which waits while the buffer is full
FetcherStop ==
    /\ fRun.pc \notin {"start", "off"}
    /\ fStop.user < MaxFetcherStops
    /\ fStop.request < StopRequestCap
    /\ fStop' = [fStop EXCEPT !.request = @ + 1, !.user = @ + 1]
    /\ UNCHANGED <<nonF, fCfg, fRun, fErrChan, fReports, fw, fStats, sink>>

\* a processSegment that never looks at stopNotify
IsStoppedNever(stop) == FALSE

\* Fetcher.isStopped: whether stopNotify is closed
IsStopped(stop) == stop.notify

\* processSegment leaves its loop (break) or finds the scan complete: report
\* nil on doneChan (errChan, never full) and return
SegmentStopped(w) ==
    /\ fw[w].pc = "loop"
    /\ IsStopped(fStop)
    /\ fErrChan' = Append(fErrChan, NoErr)
    /\ fReports' = Append(fReports, NoErr)
    /\ fw' = [fw EXCEPT ![w].pc = "exit"]
    /\ UNCHANGED <<nonF, fCfg, fRun, fStop, fStats, sink>>

\* the items of the table segment a ScanInput asks for: the table is split
\* into TotalSegments segments, numbered from 0
SegmentItems(segments, params) ==
    IF params.TotalSegments = FMaxParallel /\ params.Segment + 1 \in DOMAIN segments
    THEN segments[params.Segment + 1]
    ELSE <<>>

\* the number of items of its segment a ScanInput skips: none without an
\* ExclusiveStartKey, else the items up to the one with that key
ScanFrom(params) ==
    IF params.ExclusiveStartKey = NoKey THEN 0 ELSE params.ExclusiveStartKey

\* the key of the n-th item of a segment (n >= 1), as a LastEvaluatedKey
KeyAt(n) == n

\* processSegment, not stopped: Scan returns the next n items of the segment
\* the request names, after its start key, with a LastEvaluatedKey, the key
\* of the last item the scan has reached, unless the segment is exhausted
\* (and possibly even then)
Scan(w) ==
    /\ fw[w].pc = "loop"
    /\ ~IsStopped(fStop)
    /\ LET seg == SegmentItems(fCfg.segments, fw[w].params)
           from == ScanFrom(fw[w].params)
       IN \E n \in 0..Min(fCfg.Limit, Len(seg) - from), last \in BOOLEAN :
            /\ from + n < Len(seg) => last
            /\ last => from + n >= 1
            /\ fw' = [fw EXCEPT ![w] = [pc |-> "write",
                                        params |-> fw[w].params,
                                        scanned |-> TRUE,
                                        pos |-> from + n,
                                        resp |-> SubSeq(seg, from + 1, from + n),
                                        k |-> 1,
                                        last |-> last,
                                        lastKey |-> IF last THEN KeyAt(from + n)
                                                    ELSE NoKey]]
    /\ UNCHANGED <<nonF, fCfg, fRun, fStop, fErrChan, fReports, fStats, sink>>

\* processSegment, not stopped: Scan returns a hard error, which is reported
\* on doneChan before the goroutine returns
ScanFail(w) ==
    /\ fw[w].pc = "loop"
    /\ ~IsStopped(fStop)
    /\ fErrChan' = Append(fErrChan, "scanerr")
    /\ fReports' = Append(fReports, "scanerr")
    /\ fw' = [fw EXCEPT ![w].pc = "exit"]
    /\ UNCHANGED <<nonF, fCfg, fRun, fStop, fStats, sink>>

\* processSegment passes the next item of the response to the Writer, whose
\* WriteItem returns nil
WriteItem(w) ==
    /\ fw[w].pc = "write"
    /\ fw[w].k <= Len(fw[w].resp)
    /\ sink' = Append(sink, fw[w].resp[fw[w].k])
    /\ fw' = [fw EXCEPT ![w].k = @ + 1]
    /\ UNCHANGED <<nonF, fCfg, fRun, fStop, fErrChan, fReports, fStats>>

\* the Writer's WriteItem returns an error, which is reported on doneChan
\* before the goroutine returns
WriteItemFail(w) ==
    /\ fw[w].pc = "write"
    /\ fw[w].k <= Len(fw[w].resp)
    /\ sink' = Append(sink, fw[w].resp[fw[w].k])
    /\ fErrChan' = Append(fErrChan, "writeerr")
    /\ fReports' = Append(fReports, "writeerr")
    /\ fw' = [fw EXCEPT ![w].pc = "exit"]
    /\ UNCHANGED <<nonF, fCfg, fRun, fStop, fStats>>

\* processSegment after the last item of a response: add the number of items
\* of the response to itemsRead
ResponseDone(w) ==
    /\ fw[w].pc = "write"
    /\ fw[w].k > Len(fw[w].resp)
    /\ fStats' = [fStats EXCEPT !.itemsRead = @ + Len(fw[w].resp)]
    /\ fw' = [fw EXCEPT ![w].pc = "check"]
    /\ UNCHANGED <<nonF, fCfg, fRun, fStop, fErrChan, fReports, sink>>

\* a processSegment that does not compare itemsRead with MaxItems
SegmentDoneAtEndOnly(l, itemsRead, maxItems) == ~l.last

\* whether processSegment leaves its loop after a response: MaxItems is set
\* and reached, or the response carried no LastEvaluatedKey
SegmentDone(l, itemsRead, maxItems) ==
    (maxItems > 0 /\ itemsRead >= maxItems) \/ ~l.last

\* a processSegment that never sets a start key
NextStartKeyNone(l) == NoKey

\* params.ExclusiveStartKey = resp.LastEvaluatedKey
NextStartKey(l) == l.lastKey

\* processSegment loads itemsRead and either breaks, reporting nil on
\* doneChan, or sets the start key of the next request and goes round the
\* loop
CheckDone(w) ==
    /\ fw[w].pc = "check"
    /\ IF SegmentDone(fw[w], fStats.itemsRead, fCfg.MaxItems)
       THEN /\ fErrChan' = Append(fErrChan, NoErr)
            /\ fReports' = Append(fReports, NoErr)
            /\ fw' = [fw EXCEPT ![w].pc = "exit"]
       ELSE /\ fw' = [fw EXCEPT ![w].pc = "loop",
                                ![w].params.ExclusiveStartKey = NextStartKey(fw[w])]
            /\ UNCHANGED <<fErrChan, fReports>>
    /\ UNCHANGED <<nonF, fCfg, fRun, fStop, fStats, sink>>

\* a wait loop that gives up one report early
FWaitDoneEarly(run) == run.i >= FMaxParallel - 1

\* the wait loop's condition i < MaxParallel is false
FWaitDone(run) == run.i >= FMaxParallel

\* a wait loop in which every error replaces the one kept
IsAnyError(run, werr) == werr # NoErr

\* the wait loop's test werr != nil, then err == nil
IsFirstError(run, werr) == werr # NoErr /\ run.err = NoErr

\* Run's wait loop receives one report; the first non-nil one is kept and
\* followed by a send on stopRequest
FRunWait ==
    /\ fRun.pc = "wait"
    /\ ~FWaitDone(fRun)
    /\ fErrChan # <<>>
    /\ LET werr == Head(fErrChan)
           first == IsFirstError(fRun, werr)
       IN /\ first => fStop.request < StopRequestCap
          /\ fRun' = [fRun EXCEPT !.err = IF first THEN werr ELSE @, !.i = @ + 1]
          /\ fStop' = IF first THEN [fStop EXCEPT !.request = @ + 1] ELSE fStop
    /\ fErrChan' = Tail(fErrChan)
    /\ UNCHANGED fReports
    /\ UNCHANGED <<nonF, fCfg, fw, fStats, sink>>

\* Run returns err
FRunReturn ==
    /\ fRun.pc = "wait"
    /\ FWaitDone(fRun)
    /\ fRun' = [fRun EXCEPT !.pc = "done", !.ret = fRun.err]
    /\ UNCHANGED <<nonF, fCfg, fStop, fErrChan, fReports, fw, fStats, sink>>

\* the Fetcher with a Writer that never fails, scans that may fail and a
\* user who may call Stop
FNext ==
    \/ FRunStart
    \/ FStopper
    \/ FetcherStop
    \/ FRunWait
    \/ FRunReturn
    \/ \E w \in FWorkers :
        \/ SegmentStopped(w)
        \/ Scan(w)
        \/ ScanFail(w)
        \/ WriteItem(w)
        \/ ResponseDone(w)
        \/ CheckDone(w)

\* the failures of the Writer
FFaults == \E w \in FWorkers : WriteItemFail(w)

\* the steps of the segment goroutine w when Scan and WriteItem succeed
SegmentNext(w) ==
    \/ SegmentStopped(w)
    \/ Scan(w)
    \/ WriteItem(w)
    \/ ResponseDone(w)
    \/ CheckDone(w)

\* the steps of Run's own goroutine
FRunNext ==
    \/ FRunStart
    \/ FRunWait
    \/ FRunReturn

\* the Fetcher with scans and a Writer that never fail, and a user who may
\* call Stop
FHealthyNext ==
    \/ FRunNext
    \/ FStopper
    \/ FetcherStop
    \/ \E w \in FWorkers : SegmentNext(w)

(***************************************************************************)
(* S3Deleter                                                               *)
(***************************************************************************)
\* most part objects of the dump that is deleted
MaxDelParts == 2
\* most keys on one page of the listing the deleter walks
MaxDelPageSize == 2
\* a key under the part prefix that differs from the key of part n in the
\* character before "gz"
NearPartKey(n) ==
    S3PartPrefix \o NineDigits(n) \o <<".", "j", "s", "o", "n", "-", "g", "z">>

\* an unrelated key under the part prefix
SiblingKey == S3PartPrefix \o <<"x">>

\* the keys that can be listed under the part prefix, in the order S3 lists
\* them ("-" sorts before ".", digits before letters)
RECURSIVE CandidateKeys(_)
CandidateKeys(n) ==
    IF n = 0 THEN <<>>
    ELSE CandidateKeys(n - 1) \o <<NearPartKey(n), S3PartKey(n)>>

AllKeys == CandidateKeys(MaxDelParts) \o <<SiblingKey>>

\* the listing that holds the candidate keys with the indexes in ix
RECURSIVE ListingOf(_, _)
ListingOf(ix, i) ==
    IF i > Len(AllKeys) THEN <<>>
    ELSE (IF i \in ix THEN <<AllKeys[i]>> ELSE <<>>) \o ListingOf(ix, i + 1)

\* regexp.Compile of ^<part prefix>\d{9}.json.gz$ : one character class per
\* position; a literal matches itself, \d a digit and an unescaped dot any
\* character
IsPart ==
    [i \in 1..Len(S3PartPrefix) |-> {S3PartPrefix[i]}]
    \o [i \in 1..PartDigits |-> DigitChars]
    \o <<KeyChars, {"j"}, {"s"}, {"o"}, {"n"}, KeyChars, {"g"}, {"z"}>>

\* Regexp.Match of an anchored sequence of character classes
Match(re, key) ==
    /\ Len(key) = Len(re)
    /\ \A i \in 1..Len(re) : key[i] \in re[i]

\* the keys of a page that the callback puts in its DeleteObjects request
PartsOf(page) == SelectSeq(page, LAMBDA k : Match(IsPart, k))

KeySet(keys) == {keys[i] : i \in 1..Len(keys)}

\* Delete's locals at its start
NewDeleteLocals ==
    [pc |-> "list", page |-> 1, err |-> NoErr, s3err |-> NoErr,
     isCompleted |-> FALSE, ret |-> NoErr]

\* NewS3Deleter has found the metadata object of a dump whose part prefix
\* lists any of the candidate keys, and Delete is called
DInit ==
    \E ix \in SUBSET (1..Len(AllKeys)), ps \in 1..MaxDelPageSize :
        /\ dStore = Paginate(ListingOf(ix, 1), ps)
        /\ dBucket = KeySet(ListingOf(ix, 1)) \cup {S3MetaKey}
        /\ dl = NewDeleteLocals
        /\ delcount = 0
        /\ dAbort = FALSE
        /\ dReqs = <<>>
        /\ dFailed = 0

\* an S3Deleter that is never constructed
DIdle ==
    /\ dStore = <<>>
    /\ dBucket = {}
    /\ dl = [NewDeleteLocals EXCEPT !.pc = "off"]
    /\ delcount = 0
    /\ dAbort = FALSE
    /\ dReqs = <<>>
    /\ dFailed = 0

\* a deleter that never looks at its abort flag
IsAbortedNever(abort) == FALSE

\* S3Deleter.isAborted: the abort flag is not zero
IsAborted(abort) == abort # FALSE

\* the page callback up to its DeleteObjects call: an aborted deleter stops
\* the listing; otherwise the matching keys of the page are deleted in one
\* call and counted
DeletePage ==
    /\ dl.pc = "list"
    /\ IF IsAborted(dAbort)
       THEN /\ dl' = [dl EXCEPT !.pc = "after"]
            /\ UNCHANGED <<dBucket, delcount, dReqs>>
       ELSE LET keys == PartsOf(dStore[dl.page])
            IN /\ dl' = [dl EXCEPT !.pc = "callback"]
               /\ dBucket' = dBucket \ KeySet(keys)
               /\ delcount' = delcount + Len(keys)
               /\ dReqs' = IF keys # <<>> THEN Append(dReqs, keys) ELSE dReqs
    /\ UNCHANGED <<nonD, dStore, dAbort, dFailed>>

\* a callback that goes on to its end after a failed DeleteObjects call
AfterDeleteErrorGoOn == "callback"

\* the callback after a failed DeleteObjects call: return false, which ends
\* ListObjectsPages
AfterDeleteError == "after"

\* the DeleteObjects call of the page returns an error
DeleteObjectsFail ==
    /\ dl.pc = "list"
    /\ ~IsAborted(dAbort)
    /\ PartsOf(dStore[dl.page]) # <<>>
    /\ dReqs' = Append(dReqs, PartsOf(dStore[dl.page]))
    /\ dFailed' = Len(dReqs')
    /\ dl' = [dl EXCEPT !.pc = AfterDeleteError, !.err = "delerr"]
    /\ UNCHANGED <<nonD, dStore, dBucket, delcount, dAbort>>

\* the DeleteObjects call of the page reports errors for some of its keys;
\* the others are deleted
DeleteKeyErrors ==
    /\ dl.pc = "list"
    /\ ~IsAborted(dAbort)
    /\ LET keys == PartsOf(dStore[dl.page])
       IN /\ keys # <<>>
          /\ dReqs' = Append(dReqs, keys)
          /\ \E bad \in (SUBSET KeySet(keys)) \ {{}} :
                dBucket' = dBucket \ (KeySet(keys) \ bad)
    /\ dFailed' = Len(dReqs')
    /\ dl' = [dl EXCEPT !.pc = AfterDeleteError, !.err = "keyerr"]
    /\ UNCHANGED <<nonD, dStore, delcount, dAbort>>

\* the end of the page callback: note the last page, then continue unless
\* the deleter is aborted; after the last page ListObjectsPages returns
DeletePageEnd ==
    /\ dl.pc = "callback"
    /\ LET lastPage == dl.page = Len(dStore)
       IN dl' = [dl EXCEPT !.isCompleted = @ \/ lastPage,
                           !.pc = IF IsAborted(dAbort) \/ lastPage THEN "after"
                                  ELSE "list",
                           !.page = IF IsAborted(dAbort) \/ lastPage THEN @ ELSE @ + 1]
    /\ UNCHANGED <<nonD, dStore, dBucket, delcount, dAbort, dReqs, dFailed>>

\* ListObjectsPages fails to fetch the next page
DeleteListFail ==
    /\ dl.pc = "list"
    /\ dl' = [dl EXCEPT !.pc = "after", !.s3err = "listerr"]
    /\ UNCHANGED <<nonD, dStore, dBucket, delcount, dAbort, dReqs, dFailed>>

\* a Delete that removes the metadata whenever no delete failed
MetaDeleteDueUnlessError(l) == l.err = NoErr

\* whether Delete goes on to delete the metadata key
MetaDeleteDue(l) == l.err = NoErr /\ l.isCompleted

\* Delete after ListObjectsPages returned: return the list error, or delete
\* the metadata key if that is due, and return err
DeleteReturn ==
    /\ dl.pc = "after"
    /\ IF dl.s3err # NoErr
       THEN /\ dl' = [dl EXCEPT !.pc = "done", !.ret = dl.s3err]
            /\ UNCHANGED <<dBucket, dReqs>>
       ELSE IF MetaDeleteDue(dl)
            THEN /\ dBucket' = dBucket \ {S3MetaKey}
                 /\ dReqs' = Append(dReqs, <<S3MetaKey>>)
                 /\ dl' = [dl EXCEPT !.pc = "done", !.ret = dl.err]
            ELSE /\ dl' = [dl EXCEPT !.pc = "done", !.ret = dl.err]
                 /\ UNCHANGED <<dBucket, dReqs>>
    /\ UNCHANGED <<nonD, dStore, delcount, dAbort, dFailed>>

\* the DeleteObjects call for the metadata key fails or reports an error for
\* the key: Delete returns that error
DeleteMetaFail ==
    /\ dl.pc = "after"
    /\ dl.s3err = NoErr
    /\ MetaDeleteDue(dl)
    /\ dReqs' = Append(dReqs, <<S3MetaKey>>)
    /\ dFailed' = Len(dReqs')
    /\ \E e \in {"delerr", "keyerr"} : dl' = [dl EXCEPT !.pc = "done", !.ret = e]
    /\ UNCHANGED <<nonD, dStore, dBucket, delcount, dAbort>>

\* S3Deleter.Abort, called while Delete runs or before
DeleterAbort ==
    /\ dl.pc \notin {"off", "done"}
    /\ ~dAbort
    /\ dAbort' = TRUE
    /\ UNCHANGED <<nonD, dStore, dBucket, dl, delcount, dReqs, dFailed>>

\* Delete with calls that all succeed and no Abort
DNext ==
    \/ DeletePage
    \/ DeletePageEnd
    \/ DeleteReturn

\* the failures of the object store and Abort
DFaults ==
    \/ DeleteObjectsFail
    \/ DeleteKeyErrors
    \/ DeleteListFail
    \/ DeleteMetaFail
    \/ DeleterAbort

(***************************************************************************)
(* Item codec, dump and load commands                                      *)
(***************************************************************************)

\* most items of the table that is dumped and loaded back
MaxDumpItems == 2

\* a dynamodb.AttributeValue whose field t holds v
AV(t, v) == [t |-> t, v |-> v]

\* a dynamodb.AttributeValue with no field set
NoAttribute == [t |-> "", v |-> <<>>]

\* the attribute values of the dumped items: a string, an empty list and a
\* list of one string
AttributeValues == {AV("S", "x"), AV("L", <<>>), AV("L", <<AV("S", "x")>>)}

\* the fields of attributeValue that are slices or maps: the omitempty tag
\* drops them when their length is zero; the other fields are pointers and
\* are dropped only when nil
SliceFields == {"B", "BS", "L", "M", "NS", "SS"}

\* encoding/json writes a []byte as a base64 string and reads it back
Base64(bytes) == <<"base64", bytes>>

Base64Decode(str) == str[2]

\* toAttribute followed by json.Marshal: the JSON object of an attribute
\* value, a function from the names of the fields that are written to their
\* JSON values
RECURSIVE MarshalAttribute(_)
MarshalAttribute(av) ==
    IF av.t = "" \/ (av.t \in SliceFields /\ DOMAIN av.v = {})
    THEN <<>>
    ELSE av.t :> (IF av.t \in {"L", "M"}
                  THEN [i \in DOMAIN av.v |-> MarshalAttribute(av.v[i])]
                  ELSE IF av.t = "B" THEN Base64(av.v)
                  ELSE IF av.t = "BS" THEN [i \in DOMAIN av.v |-> Base64(av.v[i])]
                  ELSE av.v)

\* json.Unmarshal into a dynamodb.AttributeValue: the fields the object
\* names are set, the others stay nil
RECURSIVE UnmarshalAttribute(_)
UnmarshalAttribute(j) ==
    IF DOMAIN j = {} THEN NoAttribute
    ELSE LET t == CHOOSE f \in DOMAIN j : TRUE
         IN AV(t, IF t \in {"L", "M"}
                  THEN [i \in DOMAIN j[t] |-> UnmarshalAttribute(j[t][i])]
                  ELSE IF t = "B" THEN Base64Decode(j[t])
                  ELSE IF t = "BS" THEN [i \in DOMAIN j[t] |-> Base64Decode(j[t][i])]
                  ELSE j[t])

\* an item of the dumped table: a number attribute "id", the hash key, and
\* an attribute "a"
DumpItem(k, av) == [key |-> k, val |-> av]

\* SimpleEncoder.WriteItem: the bytes json.Encoder.Encode hands to the
\* writer in one Write call, the JSON document of the item and a newline
Encode(item) ==
    << <<"json", [id |-> MarshalAttribute(AV("N", item.key)),
                  a |-> MarshalAttribute(item.val)]>>,
       <<"nl", 0>> >>

\* the JSON documents that are complete in a byte stream
Documents(bytes) == SelectSeq(bytes, LAMBDA b : b[1] = "json")

\* SimpleDecoder.ReadItem: the item of a JSON document
Decode(doc) ==
    DumpItem(UnmarshalAttribute(doc[2].id).v, UnmarshalAttribute(doc[2].a))

\* deepest nesting of lists and maps in the values the codec is given
MaxDepth == 2

\* values of the variants that hold no other value: S, N, B, BOOL, NULL, SS,
\* NS and BS
Leaves ==
    <<AV("S", ""), AV("S", "x"), AV("N", "1"), AV("B", <<1>>), AV("BOOL", TRUE),
      AV("BOOL", FALSE), AV("NULL", TRUE), AV("SS", <<"x">>), AV("NS", <<"1">>),
      AV("BS", << <<1>> >>)>>

\* the values of all ten variants nested at most d deep: the leaves, the
\* empty list and map, and the lists and maps of one value nested less deep
RECURSIVE ValuesOfDepth(_)
ValuesOfDepth(d) ==
    IF d = 0 THEN Leaves
    ELSE LET vals == ValuesOfDepth(d - 1)
         IN Leaves \o <<AV("L", <<>>), AV("M", <<>>)>>
            \o [i \in 1..Len(vals) |-> AV("L", <<vals[i]>>)]
            \o [i \in 1..Len(vals) |-> AV("M", "k" :> vals[i])]

\* an encoder is given any item whose attribute holds one of these values
JInit ==
    /\ \E i \in 1..Len(ValuesOfDepth(MaxDepth)) :
          jItem = DumpItem(1, ValuesOfDepth(MaxDepth)[i])
    /\ jLine = <<>>
    /\ jOut = DumpItem(0, NoAttribute)
    /\ jPc = "encode"

\* no codec call is made
JIdle ==
    /\ jItem = DumpItem(0, NoAttribute)
    /\ jLine = <<>>
    /\ jOut = DumpItem(0, NoAttribute)
    /\ jPc = "off"


\* SimpleEncoder.WriteItem writes the line of the item
JWriteItem ==
    /\ jPc = "encode"
    /\ jLine' = Encode(jItem)
    /\ jPc' = "decode"
    /\ UNCHANGED <<nonJ, jItem, jOut>>

\* SimpleDecoder.ReadItem on the line returns an item
JReadItem ==
    /\ jPc = "decode"
    /\ jOut' = Decode(Documents(jLine)[1])
    /\ jPc' = "done"
    /\ UNCHANGED <<nonJ, jItem, jLine>>

JNext ==
    \/ JWriteItem
    \/ JReadItem

(***************************************************************************)
(* dumper.openS3Writer                                                     *)
(***************************************************************************)
\* the keys of part objects under the prefix
OldPartKeys == {"part1", "part2", "part3"}

\* bodies of a metadata object: the metadata of a dump of table "a" or "b",
\* and bytes that are not JSON metadata
MetaBodies == {"a", "b", "corrupt"}

\* the errors GetObject returns for a reason other than a missing key: two
\* awserr.Error codes and an error that is no awserr.Error
OtherGetErrors == {"AccessDenied", "InternalError", "timeout"}

\* s3ObjectNotFound
NoSuchKey == "NoSuchKey"

\* a test that lets the dump continue on any awserr.Error
IsAnyAwsError(err) == err \in {NoSuchKey, "AccessDenied", "InternalError"}

\* whether err is an awserr.Error whose Code() is s3ObjectNotFound
IsNotFound(err) == err = NoSuchKey

\* the objects under a prefix: any old parts, with or without a metadata
\* object
OInit ==
    /\ \E ps \in SUBSET OldPartKeys, hasMeta \in BOOLEAN, body \in MetaBodies :
          oBucket = [k \in ps \cup (IF hasMeta THEN {"meta"} ELSE {}) |->
                        IF k = "meta" THEN body ELSE "part"]
    /\ oBucket0 = oBucket
    /\ oGet = [md |-> "", err |-> NoErr]
    /\ oRet = [writer |-> FALSE, err |-> NoErr]
    /\ oPc = "get"

\* no dump command runs
OIdle ==
    /\ oBucket = <<>>
    /\ oBucket0 = <<>>
    /\ oGet = [md |-> "", err |-> NoErr]
    /\ oRet = [writer |-> FALSE, err |-> NoErr]
    /\ oPc = "off"

(***************************************************************************)
(* Fetcher.calcLimit and limitCalc                                         *)
(***************************************************************************)
\* natural numbers of any size, as little-endian sequences of digits in base
\* LimbBase
RECURSIVE Pow2(_)
Pow2(k) == IF k = 0 THEN 1 ELSE 2 * Pow2(k - 1)

LimbBits == 10
LimbBase == Pow2(LimbBits)

RECURSIVE BigNorm(_)
BigNorm(a) ==
    IF a # <<>> /\ a[Len(a)] = 0 THEN BigNorm(SubSeq(a, 1, Len(a) - 1)) ELSE a

RECURSIVE BigOfInt(_)
BigOfInt(n) == IF n = 0 THEN <<>> ELSE <<n % LimbBase>> \o BigOfInt(n \div LimbBase)

RECURSIVE BigToInt(_)
BigToInt(a) == IF a = <<>> THEN 0 ELSE Head(a) + LimbBase * BigToInt(Tail(a))

RECURSIVE BigMulSmallC(_, _, _)
BigMulSmallC(a, k, carry) ==
    IF a = <<>> THEN BigOfInt(carry)
    ELSE LET t == Head(a) * k + carry
         IN <<t % LimbBase>> \o BigMulSmallC(Tail(a), k, t \div LimbBase)

\* a * k for 0 <= k < 2^20
BigMulSmall(a, k) == BigNorm(BigMulSmallC(a, k, 0))

RECURSIVE BigAddC(_, _, _)
BigAddC(a, b, carry) ==
    IF a = <<>> /\ b = <<>> THEN BigOfInt(carry)
    ELSE LET x == IF a = <<>> THEN 0 ELSE Head(a)
             y == IF b = <<>> THEN 0 ELSE Head(b)
             t == x + y + carry
         IN <<t % LimbBase>>
            \o BigAddC(IF a = <<>> THEN a ELSE Tail(a),
                       IF b = <<>> THEN b ELSE Tail(b), t \div LimbBase)

BigAdd(a, b) == BigNorm(BigAddC(a, b, 0))

RECURSIVE BigMul(_, _)
BigMul(a, b) ==
    IF b = <<>> THEN <<>>
    ELSE BigAdd(BigMulSmall(a, Head(b)),
                LET r == BigMul(a, Tail(b)) IN IF r = <<>> THEN r ELSE <<0>> \o r)

\* a * 2^k
BigShl(a, k) ==
    IF a = <<>> THEN a
    ELSE [i \in 1..(k \div LimbBits) |-> 0] \o BigMulSmall(a, Pow2(k % LimbBits))

\* quotient and remainder of a by d, 0 < d < 2^20, from the top digit down
RECURSIVE BigDivSmallR(_, _, _)
BigDivSmallR(a, d, i) ==
    IF i > Len(a) THEN [q |-> <<>>, r |-> 0]
    ELSE LET up == BigDivSmallR(a, d, i + 1)
             t == up.r * LimbBase + a[i]
         IN [q |-> <<t \div d>> \o up.q, r |-> t % d]

BigDivSmall(a, d) ==
    LET res == BigDivSmallR(a, d, 1) IN [q |-> BigNorm(res.q), r |-> res.r]

RECURSIVE BitLenInt(_)
BitLenInt(n) == IF n = 0 THEN 0 ELSE 1 + BitLenInt(n \div 2)

BigBitLen(a) == IF a = <<>> THEN 0 ELSE LimbBits * (Len(a) - 1) + BitLenInt(a[Len(a)])

\* floor(a / 2^k), and whether a is not a multiple of 2^k
BigShr(a, k) ==
    LET drop == k \div LimbBits
        low == SubSeq(a, 1, IF drop < Len(a) THEN drop ELSE Len(a))
        rest == SubSeq(a, drop + 1, Len(a))
        res == BigDivSmall(rest, Pow2(k % LimbBits))
    IN [q |-> res.q, inexact |-> res.r # 0 \/ \E i \in 1..Len(low) : low[i] # 0]

BigIsOdd(a) == a # <<>> /\ a[1] % 2 = 1

\* a positive float64: the value m * 2^e with m < 2^53 (the sign and the
\* special values do not occur)
MantissaBits == 53

\* the float64 nearest to n * 2^e (plus a non-zero part below the last bit of
\* n when sticky), ties to even
RoundToFloat(n, e, sticky) ==
    LET s == BigBitLen(n) - MantissaBits
    IN IF s <= 0 THEN [m |-> n, e |-> e]
       ELSE LET q == BigShr(n, s).q
                guard == BigIsOdd(BigShr(n, s - 1).q)
                below == sticky \/ BigShr(n, s - 1).inexact
                up == guard /\ (below \/ BigIsOdd(q))
            IN [m |-> IF up THEN BigAdd(q, <<1>>) ELSE q, e |-> e + s]

\* bits of the quotient kept before rounding
DivBits == 80

\* float64(a) / float64(b) for integers 0 < a, b < 2^20
FloatDiv(a, b) ==
    LET res == BigDivSmall(BigShl(BigOfInt(a), DivBits), b)
    IN RoundToFloat(res.q, 0 - DivBits, res.r # 0)

\* x * y
FloatMul(x, y) == RoundToFloat(BigMul(x.m, y.m), x.e + y.e, FALSE)

\* int(x): the integer part
FloatToInt(x) ==
    IF x.e >= 0 THEN BigToInt(BigShl(x.m, x.e)) ELSE BigToInt(BigShr(x.m, 0 - x.e).q)

\* the sizes the items read can have
ItemSizes == {0, 10, 49}

\* the read capacities and worker counts a Fetcher can be configured with
ReadCapacities == {1, 49, 1000}
Parallels == {1, 2, 5}

\* length of the size window (limitCalcSize, 50 in the program)
LimitCalcSize == 3

\* item sizes added in one run
MaxAddSizes == 4

InitialLimit == 20

Bytes4k == 4096

NewLimitCalc(size) == [itemSizes |-> [i \in 1..size |-> 0], offset |-> 0]

\* sort.Ints
SortInts(s) == SortSeq(s, LAMBDA a, b : a < b)

\* a median that does not wait for the window to fill
MedianOfAny(lc) == SortInts(lc.itemSizes)[(Len(lc.itemSizes) \div 2) + 1]

\* limitCalc.median: -1 until the window has been filled once, then the
\* middle element of the sorted window
Median(lc) ==
    IF lc.offset < Len(lc.itemSizes) THEN -1
    ELSE SortInts(lc.itemSizes)[(Len(lc.itemSizes) \div 2) + 1]

\* the window after median, which sorts it in place once it has been filled
AfterMedian(lc) ==
    IF lc.offset < Len(lc.itemSizes) THEN lc
    ELSE [lc EXCEPT !.itemSizes = SortInts(lc.itemSizes)]

\* the limit that floors the items per 4k before it is scaled
CalcLimitFlooredRatio(f, medianSize) ==
    IF medianSize <= 0 THEN -1
    ELSE LET newLimit == (Bytes4k \div medianSize) * (f.ReadCapacity \div f.MaxParallel)
             doubled == IF ~f.ConsistentRead THEN newLimit * 2 ELSE newLimit
         IN IF doubled < 1 THEN 1 ELSE doubled

\* the limit without the doubling for eventually consistent reads
CalcLimitConsistentOnly(f, medianSize) ==
    IF medianSize <= 0 THEN -1
    ELSE LET newLimit ==
                 FloatToInt(FloatMul(FloatDiv(Bytes4k, medianSize),
                                     FloatDiv(f.ReadCapacity, f.MaxParallel)))
         IN IF newLimit < 1 THEN 1 ELSE newLimit

\* Fetcher.calcLimit, given what limitCalc.median returned
CalcLimit(f, medianSize) ==
    IF medianSize <= 0 THEN -1
    ELSE LET desiredCapacity == FloatDiv(f.ReadCapacity, f.MaxParallel)
             itemsPer4k == FloatDiv(Bytes4k, medianSize)
             newLimit == FloatToInt(FloatMul(itemsPer4k, desiredCapacity))
             doubled == IF ~f.ConsistentRead THEN newLimit * 2 ELSE newLimit
         IN IF doubled < 1 THEN 1 ELSE doubled

NoCall ==
    [called |-> FALSE, window |-> <<>>, offset |-> 0, before |-> 0, median |-> 0,
     ret |-> 0]

CInit ==
    /\ limitCalc = NewLimitCalc(LimitCalcSize)
    /\ \E rc \in ReadCapacities, mp \in Parallels, cr \in BOOLEAN :
           clFetcher = [ReadCapacity |-> rc, MaxParallel |-> mp, ConsistentRead |-> cr]
    /\ clLimit = InitialLimit
    /\ clCall = NoCall
    /\ clAdded = <<>>

\* no scan limit is calculated
CIdle ==
    /\ limitCalc = NewLimitCalc(0)
    /\ clFetcher = [ReadCapacity |-> 0, MaxParallel |-> 0, ConsistentRead |-> FALSE]
    /\ clLimit = 0
    /\ clCall = NoCall
    /\ clAdded = <<>>

\* limitCalc.addSize, called for an item of a scan response
AddSize ==
    /\ clFetcher.MaxParallel > 0
    /\ limitCalc.offset < MaxAddSizes
    /\ \E size \in ItemSizes :
           /\ limitCalc' = [itemSizes |-> [limitCalc.itemSizes EXCEPT
                                              ![(limitCalc.offset % Len(limitCalc.itemSizes)) + 1] = size],
                            offset |-> limitCalc.offset + 1]
           /\ clAdded' = Append(clAdded, size)
    /\ UNCHANGED <<clFetcher, clLimit, clCall>>
    /\ UNCHANGED nonC

\* the end of one round of processSegment with a rate limit: calcLimit, and
\* the scan limit replaced when the result is positive
NextLimit ==
    /\ clFetcher.ReadCapacity > 0
    /\ LET newLimit == CalcLimit(clFetcher, Median(limitCalc))
       IN /\ clCall' = [called |-> TRUE, window |-> limitCalc.itemSizes,
                        offset |-> limitCalc.offset, before |-> clLimit,
                        median |-> Median(limitCalc), ret |-> newLimit]
          /\ clLimit' = IF newLimit > 0 THEN newLimit ELSE clLimit
    /\ limitCalc' = AfterMedian(limitCalc)
    /\ UNCHANGED <<clFetcher, clAdded>>
    /\ UNCHANGED nonC

CNext == AddSize \/ NextLimit

(***************************************************************************)
(* Fetcher with its rate limit                                             *)
(***************************************************************************)
\* Fetcher.MaxParallel of the rate-limited runs
RMaxParallel == 2
\* most items in the scanned table
MaxRateItems == 3
\* most items one Scan call returns, whatever its Limit
MaxRatePage == 2

RWorkers == 1..RMaxParallel

\* Fetcher.ReadCapacity: negative, zero, positive
RateCapacities == {-1, 0, 2}

\* calcItemSize of the scanned items
RateItemSizes == {0, 10}

\* Fetcher.MaxItems: unset
RateMaxItems == {0}

\* Fetcher.ConsistentRead
RateConsistentReads == {FALSE}

\* a nil *ratelimit.Bucket, and the bucket Run makes
NoBucket == "nil"

Bucket == "bucket"

\* params.Limit for a scan without limit
Unlimited == 0

\* the Fetcher's fields as calcLimit reads them
RateFetcher ==
    [ReadCapacity |-> rlCfg.ReadCapacity, MaxParallel |-> RMaxParallel,
     ConsistentRead |-> rlCfg.ConsistentRead]

\* locals of processSegment: Limit is params.Limit, resp the sizes of the
\* items of the current response, k the index of its next item, last
\* whether it carried a LastEvaluatedKey; took records whether the goroutine
\* has called rateLimit.Take, stopInWait whether waitForRateLimit returned
\* true
NewRateLocals ==
    [pc |-> "off", Limit |-> Unlimited, resp |-> <<>>, k |-> 1, last |-> FALSE,
     took |-> FALSE, stopInWait |-> FALSE]

GStart(cap, cr, maxItems, segs) ==
    /\ rlCfg = [ReadCapacity |-> cap, ConsistentRead |-> cr, MaxItems |-> maxItems]
    /\ rateLimit = NoBucket
    /\ rlTable = segs
    /\ rlRun = [pc |-> "start", err |-> NoErr, i |-> 0, ret |-> NoErr]
    /\ rlStop = [request |-> 0, notify |-> FALSE, stopper |-> "off", user |-> 0]
    /\ rlErrChan = <<>>
    /\ rlCalc = NewLimitCalc(0)
    /\ rlw = [w \in RWorkers |-> NewRateLocals]
    /\ rlStats = [itemsRead |-> 0]
    /\ rlReqs = {}

\* the tables scanned: at most MaxRateItems items over the segments
RateTables ==
    {t \in [RWorkers -> 0..MaxRateItems] :
        SumSeq([w \in RWorkers |-> t[w]]) <= MaxRateItems}

GInit ==
    \E cap \in RateCapacities, cr \in RateConsistentReads, maxItems \in RateMaxItems,
       segs \in RateTables :
        GStart(cap, cr, maxItems, segs)

\* a Fetcher that is never constructed
GIdle ==
    /\ rlCfg = [ReadCapacity |-> 0, ConsistentRead |-> FALSE, MaxItems |-> 0]
    /\ rateLimit = NoBucket
    /\ rlTable = [w \in RWorkers |-> 0]
    /\ rlRun = [pc |-> "off", err |-> NoErr, i |-> 0, ret |-> NoErr]
    /\ rlStop = [request |-> 0, notify |-> FALSE, stopper |-> "off", user |-> 0]
    /\ rlErrChan = <<>>
    /\ rlCalc = NewLimitCalc(0)
    /\ rlw = [w \in RWorkers |-> NewRateLocals]
    /\ rlStats = [itemsRead |-> 0]
    /\ rlReqs = {}

\* Run's test f.ReadCapacity > 0
HasRateLimit(cap) == cap > 0

\* processSegment: limit starts at initialLimit, and at 0 without a bucket
StartLimit(bucket) == IF bucket = NoBucket THEN Unlimited ELSE InitialLimit

\* Fetcher.Run up to its wait loop: make the channels and the size window,
\* the bucket when ReadCapacity > 0, start the stopper and one goroutine per
\* segment, each of which sets up its ScanInput
RateRunStart ==
    /\ rlRun.pc = "start"
    /\ rlRun' = [rlRun EXCEPT !.pc = "wait"]
    /\ rlStop' = [rlStop EXCEPT !.stopper = "wait"]
    /\ rlCalc' = NewLimitCalc(LimitCalcSize)
    /\ rateLimit' = IF HasRateLimit(rlCfg.ReadCapacity) THEN Bucket ELSE NoBucket
    /\ rlw' = [w \in RWorkers |->
                  [rlw[w] EXCEPT !.pc = "top", !.Limit = StartLimit(rateLimit')]]
    /\ UNCHANGED <<nonG, rlCfg, rlTable, rlErrChan, rlStats, rlReqs>>

\* the stopper goroutine: receive one stop request, close stopNotify
RateStopper ==
    /\ rlStop.stopper = "wait"
    /\ rlStop.request > 0
    /\ rlStop' = [rlStop EXCEPT !.request = @ - 1, !.notify = TRUE, !.stopper = "done"]
    /\ UNCHANGED <<nonG, rlCfg, rateLimit, rlTable, rlRun, rlErrChan, rlCalc, rlw,
                   rlStats, rlReqs>>

\* Fetcher.Stop called by the user while Run is running
RateStop ==
    /\ rlRun.pc \notin {"start", "off"}
    /\ rlStop.user < MaxFetcherStops
    /\ rlStop.request < StopRequestCap
    /\ rlStop' = [rlStop EXCEPT !.request = @ + 1, !.user = @ + 1]
    /\ UNCHANGED <<nonG, rlCfg, rateLimit, rlTable, rlRun, rlErrChan, rlCalc, rlw,
                   rlStats, rlReqs>>

\* the top of processSegment's loop without a bucket: straight to isStopped
RateNoLimit(w) ==
    /\ rlw[w].pc = "top"
    /\ rateLimit = NoBucket
    /\ rlw' = [rlw EXCEPT ![w].pc = "check"]
    /\ UNCHANGED <<nonG, rlCfg, rateLimit, rlTable, rlRun, rlStop, rlErrChan, rlCalc,
                   rlStats, rlReqs>>

\* waitForRateLimit: Take(usedCapacity) returns the time to wait for the
\* tokens, which depends on the bucket and the clock; 0 returns false at
\* once, a positive delay enters the select
RateTake(w) ==
    /\ rlw[w].pc = "top"
    /\ rateLimit # NoBucket
    /\ \E positive \in BOOLEAN :
           rlw' = [rlw EXCEPT ![w].pc = IF positive THEN "waiting" ELSE "check",
                              ![w].took = TRUE]
    /\ UNCHANGED <<nonG, rlCfg, rateLimit, rlTable, rlRun, rlStop, rlErrChan, rlCalc,
                   rlStats, rlReqs>>

\* waitForRateLimit's select: the timer fires, the wait returns false
WaitElapsed(w) ==
    /\ rlw[w].pc = "waiting"
    /\ rlw' = [rlw EXCEPT ![w].pc = "check"]
    /\ UNCHANGED <<nonG, rlCfg, rateLimit, rlTable, rlRun, rlStop, rlErrChan, rlCalc,
                   rlStats, rlReqs>>

\* a select without the stopNotify case
WaitInterruptedNever(stop) == FALSE

\* the select's case <-f.stopNotify can be taken
WaitInterrupted(stop) == stop.notify

\* waitForRateLimit's select: stopNotify is closed, the wait returns true and
\* processSegment breaks, reports nil and returns
WaitStopped(w) ==
    /\ rlw[w].pc = "waiting"
    /\ WaitInterrupted(rlStop)
    /\ rlErrChan' = Append(rlErrChan, NoErr)
    /\ rlw' = [rlw EXCEPT ![w].pc = "exit", ![w].stopInWait = TRUE]
    /\ UNCHANGED <<nonG, rlCfg, rateLimit, rlTable, rlRun, rlStop, rlCalc, rlStats,
                   rlReqs>>

\* processSegment's isStopped test after the wait: break, report nil and
\* return when stopNotify is closed, else go on to Scan
RateCheckStop(w) ==
    /\ rlw[w].pc = "check"
    /\ IF IsStopped(rlStop)
       THEN /\ rlErrChan' = Append(rlErrChan, NoErr)
            /\ rlw' = [rlw EXCEPT ![w].pc = "exit"]
       ELSE /\ rlw' = [rlw EXCEPT ![w].pc = "scan"]
            /\ UNCHANGED rlErrChan
    /\ UNCHANGED <<nonG, rlCfg, rateLimit, rlTable, rlRun, rlStop, rlCalc, rlStats,
                   rlReqs>>

\* the most items a Scan call with the given Limit returns from a segment
\* with `left` items left
ScanMost(limit, left) ==
    Min(left, IF limit = Unlimited THEN MaxRatePage ELSE Min(limit, MaxRatePage))

\* the record of a Scan call: the goroutine, params.Limit and whether the
\* window has been filled, that is, limitCalcSize sizes have been recorded
ScanCall(w) ==
    [w |-> w, Limit |-> rlw[w].Limit, filled |-> rlCalc.offset >= LimitCalcSize]

\* f.Dyn.Scan(params) returns n items with a LastEvaluatedKey, or without one
\* when the segment is exhausted
RateScan(w) ==
    /\ rlw[w].pc = "scan"
    /\ rlReqs' = rlReqs \cup {ScanCall(w)}
    /\ \E n \in 0..ScanMost(rlw[w].Limit, rlTable[w]), last \in BOOLEAN :
        /\ n < rlTable[w] => last
        /\ \E sizes \in [1..n -> RateItemSizes] :
               rlw' = [rlw EXCEPT ![w].pc = "write", ![w].resp = sizes, ![w].k = 1,
                                  ![w].last = last]
        /\ rlTable' = [rlTable EXCEPT ![w] = @ - n]
    /\ UNCHANGED <<nonG, rlCfg, rateLimit, rlRun, rlStop, rlErrChan, rlCalc, rlStats>>

\* f.Dyn.Scan(params) returns a hard error, which is reported on doneChan
RateScanFail(w) ==
    /\ rlw[w].pc = "scan"
    /\ rlReqs' = rlReqs \cup {ScanCall(w)}
    /\ rlErrChan' = Append(rlErrChan, "scanerr")
    /\ rlw' = [rlw EXCEPT ![w].pc = "exit"]
    /\ UNCHANGED <<nonG, rlCfg, rateLimit, rlTable, rlRun, rlStop, rlCalc, rlStats>>

\* one item of the response: WriteItem returns nil and the item's size is
\* added to the shared window (limitCalc.addSize, under its mutex)
RateWriteItem(w) ==
    /\ rlw[w].pc = "write"
    /\ rlw[w].k <= Len(rlw[w].resp)
    /\ rlCalc' = [itemSizes |-> [rlCalc.itemSizes EXCEPT
                                    ![(rlCalc.offset % Len(rlCalc.itemSizes)) + 1] =
                                        rlw[w].resp[rlw[w].k]],
                  offset |-> rlCalc.offset + 1]
    /\ rlw' = [rlw EXCEPT ![w].k = @ + 1]
    /\ UNCHANGED <<nonG, rlCfg, rateLimit, rlTable, rlRun, rlStop, rlErrChan, rlStats,
                   rlReqs>>

\* after the last item of a response: add the number of items to itemsRead
RateResponseDone(w) ==
    /\ rlw[w].pc = "write"
    /\ rlw[w].k > Len(rlw[w].resp)
    /\ rlStats' = [rlStats EXCEPT !.itemsRead = @ + Len(rlw[w].resp)]
    /\ rlw' = [rlw EXCEPT ![w].pc = "after"]
    /\ UNCHANGED <<nonG, rlCfg, rateLimit, rlTable, rlRun, rlStop, rlErrChan, rlCalc,
                   rlReqs>>

\* the end of a round: break when MaxItems is reached or the response had no
\* LastEvaluatedKey; otherwise, with a bucket, calcLimit (whose median call
\* sorts the window) and params.Limit replaced by a positive result
RateNextRound(w) ==
    /\ rlw[w].pc = "after"
    /\ IF SegmentDone(rlw[w], rlStats.itemsRead, rlCfg.MaxItems)
       THEN /\ rlErrChan' = Append(rlErrChan, NoErr)
            /\ rlw' = [rlw EXCEPT ![w].pc = "exit"]
            /\ UNCHANGED rlCalc
       ELSE /\ UNCHANGED rlErrChan
            /\ IF rateLimit # NoBucket
               THEN LET newLimit == CalcLimit(RateFetcher, Median(rlCalc))
                    IN /\ rlw' = [rlw EXCEPT ![w].pc = "top",
                                             ![w].Limit = IF newLimit > 0 THEN newLimit
                                                          ELSE @]
                       /\ rlCalc' = AfterMedian(rlCalc)
               ELSE /\ rlw' = [rlw EXCEPT ![w].pc = "top"]
                    /\ UNCHANGED rlCalc
    /\ UNCHANGED <<nonG, rlCfg, rateLimit, rlTable, rlRun, rlStop, rlStats, rlReqs>>

\* Run's wait loop receives one report; the first non-nil one is kept and
\* followed by a send on stopRequest
RateRunWait ==
    /\ rlRun.pc = "wait"
    /\ rlRun.i < RMaxParallel
    /\ rlErrChan # <<>>
    /\ LET werr == Head(rlErrChan)
           first == IsFirstError(rlRun, werr)
       IN /\ first => rlStop.request < StopRequestCap
          /\ rlRun' = [rlRun EXCEPT !.err = IF first THEN werr ELSE @, !.i = @ + 1]
          /\ rlStop' = IF first THEN [rlStop EXCEPT !.request = @ + 1] ELSE rlStop
    /\ rlErrChan' = Tail(rlErrChan)
    /\ UNCHANGED <<nonG, rlCfg, rateLimit, rlTable, rlCalc, rlw, rlStats, rlReqs>>

\* Run returns err
RateRunReturn ==
    /\ rlRun.pc = "wait"
    /\ rlRun.i >= RMaxParallel
    /\ rlRun' = [rlRun EXCEPT !.pc = "done", !.ret = rlRun.err]
    /\ UNCHANGED <<nonG, rlCfg, rateLimit, rlTable, rlStop, rlErrChan, rlCalc, rlw,
                   rlStats, rlReqs>>

GNext ==
    \/ RateRunStart
    \/ RateStopper
    \/ RateStop
    \/ RateRunWait
    \/ RateRunReturn
    \/ \E w \in RWorkers :
        \/ RateNoLimit(w)
        \/ RateTake(w)
        \/ WaitElapsed(w)
        \/ WaitStopped(w)
        \/ RateCheckStop(w)
        \/ RateScan(w)
        \/ RateScanFail(w)
        \/ RateWriteItem(w)
        \/ RateResponseDone(w)
        \/ RateNextRound(w)

(***************************************************************************)
(* S3Writer metadata uploads, call by call                                 *)
(***************************************************************************)
\* the caller of a metadata put that is S3Writer.Run
ByRun == 0

\* no metadata put has been called
MIdle ==
    /\ mm = 0
    /\ metaFlight = {}
    /\ metaPuts = <<>>

\* flushMetadata up to its PutObject call: the descriptor is marshalled as
\* it is now; kept with it are the parts that completePart has counted and
\* the parts that have been uploaded
MetaPutCalled(by, m, done) ==
    metaFlight' = metaFlight \cup {[by |-> by, body |-> m,
                                    counted |-> {done[i] : i \in 1..Len(done)},
                                    uploaded |-> DOMAIN s3parts]}

\* the put that `by` has in flight
MetaPutOf(by) == CHOOSE p \in metaFlight : p.by = by

\* PutObject of the metadata returns nil: the object is stored
MetaPutStored(by) ==
    /\ s3meta' = MetaPutOf(by).body
    /\ metaPuts' = Append(metaPuts, MetaPutOf(by))
    /\ metaFlight' = {p \in metaFlight : p.by # by}

\* PutObject of the metadata returns an error
MetaPutFailed(by) ==
    /\ metaFlight' = {p \in metaFlight : p.by # by}
    /\ UNCHANGED <<s3meta, metaPuts>>

\* a completePart that does not wait for the mutex
MetaLockAlways == TRUE

\* w.mm.Lock() can return
MetaLockFree == mm = 0

\* S3Writer.Run: the parameter checks and the call of the first metadata put
RunFlushMetadata ==
    /\ runPc = "start"
    /\ runPc' = "startput"
    /\ MetaPutCalled(ByRun, md, completed)
    /\ UNCHANGED <<nonM, mm, metaPuts, late, completed, runErr, md, partnum, failed, metaHash,
                   chanClosed, wpc, wl, s3parts, s3meta, cpc, cRecs, cErr, cData>>

\* the first metadata put returns nil: Run starts the workers and waits
RunStarted ==
    /\ runPc = "startput"
    /\ MetaPutStored(ByRun)
    /\ wpc' = [w \in WWorkers |-> "recv"]
    /\ runPc' = "wait"
    /\ UNCHANGED <<nonM, mm, late, completed, runErr, md, partnum, failed, metaHash,
                   chanClosed, wl, s3parts, cpc, cRecs, cErr, cData>>

\* the first metadata put fails: Run returns the error, no worker is started
RunNotStarted ==
    /\ runPc = "startput"
    /\ MetaPutFailed(ByRun)
    /\ runPc' = "done"
    /\ runErr' = "metafail"
    /\ UNCHANGED <<nonM, mm, late, completed, md, partnum, failed, metaHash, chanClosed, wpc,
                   wl, s3parts, cpc, cRecs, cErr, cData>>

\* completePart: take the metadata mutex, fold the part hash into the
\* reorder buffer, bump the totals and call the metadata put
CompletePartLocked(w) ==
    /\ wpc[w] = "complete"
    /\ MetaLockFree
    /\ mm' = w
    /\ metaHash' = HashCalcAdd(metaHash, wl[w].pn - 1, Sha256Hex(wl[w].pending))
    /\ md' = CompletePart(md, metaHash', wl[w])
    /\ completed' = Append(completed, wl[w].pn)
    /\ MetaPutCalled(w, md', completed')
    /\ wpc' = [wpc EXCEPT ![w] = "metaput"]
    /\ UNCHANGED <<nonM, metaPuts, late, runPc, runErr, partnum, failed, chanClosed, wl,
                   s3parts, s3meta, cpc, cRecs, cErr, cData>>

\* completePart's metadata put returns nil: the mutex is released and flush
\* resets the temp file, the hasher and the counters
CompletePartStored(w) ==
    /\ wpc[w] = "metaput"
    /\ MetaPutStored(w)
    /\ mm' = 0
    /\ wl' = [wl EXCEPT ![w] = FlushReset(@)]
    /\ wpc' = [wpc EXCEPT ![w] = AfterFlushOk(wl[w])]
    /\ UNCHANGED <<nonM, late, completed, runPc, runErr, md, partnum, failed, metaHash,
                   chanClosed, s3parts, cpc, cRecs, cErr, cData>>

\* completePart's metadata put fails: the mutex is released, the error is
\* latched and nothing is reset
CompletePartNotStored(w) ==
    /\ wpc[w] = "metaput"
    /\ MetaPutFailed(w)
    /\ mm' = 0
    /\ Fail("metafail")
    /\ wl' = [wl EXCEPT ![w].failed = TRUE]
    /\ wpc' = [wpc EXCEPT ![w] = AfterFlushError(wl[w])]
    /\ UNCHANGED <<nonM, late, completed, runPc, runErr, md, partnum, metaHash, chanClosed,
                   s3parts, cpc, cRecs, cErr, cData>>

\* S3Writer.Run after wg.Wait: set the end time and the status and call the
\* last metadata put
RunFlushFinal ==
    /\ runPc = "wait"
    /\ \A w \in WWorkers : wpc[w] = "done"
    /\ md' = [md EXCEPT !.EndTime = TRUE,
                        !.Status = IF failed # NoErr THEN "failed" ELSE "completed"]
    /\ MetaPutCalled(ByRun, md', completed)
    /\ runPc' = "finalput"
    /\ UNCHANGED <<nonM, mm, metaPuts, late, completed, runErr, partnum, failed, metaHash,
                   chanClosed, wpc, wl, s3parts, s3meta, cpc, cRecs, cErr, cData>>

\* the last metadata put returns nil: Run returns the latched error, if any
RunReturned ==
    /\ runPc = "finalput"
    /\ MetaPutStored(ByRun)
    /\ runErr' = failed
    /\ runPc' = "done"
    /\ UNCHANGED <<nonM, mm, late, completed, md, partnum, failed, metaHash, chanClosed, wpc,
                   wl, s3parts, cpc, cRecs, cErr, cData>>

\* the last metadata put fails: Run returns the latched error if there is
\* one and the put's error otherwise
RunReturnedMetaFail ==
    /\ runPc = "finalput"
    /\ MetaPutFailed(ByRun)
    /\ runErr' = IF failed # NoErr THEN failed ELSE "metafail"
    /\ runPc' = "done"
    /\ UNCHANGED <<nonM, mm, late, completed, md, partnum, failed, metaHash, chanClosed, wpc,
                   wl, s3parts, cpc, cRecs, cErr, cData>>

\* a step of the writer that involves no metadata upload
WOther ==
    \/ WriteCheck
    \/ WriteFailed
    \/ Close
    \/ Abort
    \/ \E w \in WWorkers :
        \/ WorkerTempFileFail(w)
        \/ WorkerRecv(w)
        \/ FlushStart(w)
        \/ FlushPut(w)
        \/ FlushPutFail(w)
        \/ WorkerDrained(w)

\* the writer with every metadata upload split into its call and its return
WMetaNext ==
    \/ WOther
    \/ RunFlushMetadata
    \/ RunStarted
    \/ RunNotStarted
    \/ RunFlushFinal
    \/ RunReturned
    \/ RunReturnedMetaFail
    \/ \E w \in WWorkers :
        \/ CompletePartLocked(w)
        \/ CompletePartStored(w)
        \/ CompletePartNotStored(w)

\* dumper.start has started its goroutine, which has started Fetcher.Run
PInit ==
    /\ dumpPc = "select"
    /\ abortChan = FALSE
    /\ dumpCalls = <<>>

\* no dump command runs
PIdle ==
    /\ dumpPc = "off"
    /\ abortChan = FALSE
    /\ dumpCalls = <<>>

UIdle == JIdle /\ OIdle /\ CIdle /\ MIdle /\ GIdle /\ PIdle

\* S3Reader.Metadata: GetObject on the metadata key fails with NoSuchKey when
\* there is no such object; otherwise the body is decoded, and a body that
\* does not decode makes Metadata return the decoder's error
OpenMetadata ==
    /\ oPc = "get"
    /\ oGet' = IF "meta" \notin DOMAIN oBucket THEN [md |-> "", err |-> NoSuchKey]
               ELSE IF oBucket["meta"] = "corrupt" THEN [md |-> "", err |-> "syntax"]
               ELSE [md |-> oBucket["meta"], err |-> NoErr]
    /\ oPc' = "check"
    /\ UNCHANGED <<nonO, oBucket, oBucket0, oRet>>

\* S3Reader.Metadata: GetObject fails for another reason
OpenMetadataFail ==
    /\ oPc = "get"
    /\ \E e \in OtherGetErrors : oGet' = [md |-> "", err |-> e]
    /\ oPc' = "check"
    /\ UNCHANGED <<nonO, oBucket, oBucket0, oRet>>

\* openS3Writer after Metadata returned: no error means the backup exists;
\* an error other than not-found is returned; otherwise a writer is made
OpenCheck ==
    /\ oPc = "check"
    /\ oRet' = IF oGet.err = NoErr THEN [writer |-> FALSE, err |-> "exists"]
               ELSE IF ~IsNotFound(oGet.err) THEN [writer |-> FALSE, err |-> "request"]
               ELSE [writer |-> TRUE, err |-> NoErr]
    /\ oPc' = "opened"
    /\ UNCHANGED <<nonO, oBucket, oBucket0, oGet>>

\* openWriters: an error of openS3Writer ends the dump; otherwise
\* S3Writer.Run is started, which writes the metadata object
OpenWriters ==
    /\ oPc = "opened"
    /\ IF oRet.writer
       THEN /\ oBucket' = [k \in DOMAIN oBucket \cup {"meta"} |->
                              IF k = "meta" THEN "a" ELSE oBucket[k]]
            /\ oPc' = "running"
       ELSE /\ oPc' = "failed"
            /\ UNCHANGED oBucket
    /\ UNCHANGED <<nonO, oBucket0, oGet, oRet>>

\* a running S3Writer uploads a part
OpenedPutPart ==
    /\ oPc = "running"
    /\ \E n \in OldPartKeys :
          /\ oBucket' = [k \in DOMAIN oBucket \cup {n} |-> IF k = n THEN "new" ELSE oBucket[k]]
          /\ oBucket' # oBucket
    /\ UNCHANGED <<nonO, oBucket0, oGet, oRet, oPc>>

ONext ==
    \/ OpenMetadata
    \/ OpenMetadataFail
    \/ OpenCheck
    \/ OpenWriters
    \/ OpenedPutPart

\* the tables of n items with keys 1..n
RECURSIVE DumpTablesOf(_)
DumpTablesOf(n) ==
    IF n = 0 THEN {<<>>}
    ELSE {Append(t, DumpItem(n, av)) : t \in DumpTablesOf(n - 1),
                                       av \in AttributeValues}

\* the dump command on any table within the bounds: a Fetcher without an
\* item cap whose Writer is a SimpleEncoder on a new S3Writer
DumpInit ==
    /\ WInit
    /\ \E n \in 0..MaxDumpItems :
        \E items \in DumpTablesOf(n) :
            \E segs \in SegmentationsOf(items) : FStart(segs, 0, MaxScanPage)

\* processSegment calls SimpleEncoder.WriteItem, which takes the encoder's
\* mutex and encodes the item into one S3Writer.Write call; Write finds
\* failError() nil and starts sending the copy of the bytes
EncodeItem(w) ==
    /\ fw[w].pc = "write"
    /\ fw[w].k <= Len(fw[w].resp)
    /\ \A v \in FWorkers : fw[v].pc # "encode"
    /\ cpc = "write"
    /\ failed = NoErr
    /\ cData' = Encode(fw[w].resp[fw[w].k])
    /\ cpc' = "send"
    /\ cErr' = NoErr
    /\ sink' = Append(sink, fw[w].resp[fw[w].k])
    /\ fw' = [fw EXCEPT ![w].pc = "encode"]
    /\ UNCHANGED <<rvars, lvars, dvars, uvars, fCfg, fRun, fStop, fErrChan, fReports, fStats>>
    /\ UNCHANGED <<completed, late, runPc, runErr, md, partnum, failed, metaHash, chanClosed,
                   wpc, wl, s3parts, s3meta, cRecs>>

\* S3Writer.Write has returned nil: WriteItem releases the mutex and returns
\* nil, processSegment goes on to the next item of the response
EncodeItemDone(w) ==
    /\ fw[w].pc = "encode"
    /\ cpc = "write"
    /\ fw' = [fw EXCEPT ![w].pc = "write", ![w].k = @ + 1]
    /\ UNCHANGED <<nonF, fCfg, fRun, fStop, fErrChan, fReports, fStats, sink>>

\* dumper.start after Fetcher.Run returned nil: writers.Close closes the
\* S3Writer
DumpClose ==
    /\ fRun.pc = "done"
    /\ fRun.ret = NoErr
    /\ Close

\* the part objects of a bucket in the order ListObjectsPages returns their
\* keys, which is the order of the zero-padded part numbers
RECURSIVE ListParts(_, _)
ListParts(parts, pns) ==
    IF pns = {} THEN <<>>
    ELSE LET pn == CHOOSE x \in pns : \A y \in pns : x <= y
         IN <<[key |-> pn, body |-> parts[pn].data, sha |-> parts[pn].sha256]>>
            \o ListParts(parts, pns \ {pn})

\* the load command after writers.Close returned nil: loader.init builds an
\* S3Reader on the dump, with the integrity check on, loader.start a Loader
\* that reads it through a SimpleDecoder and overwrites existing items, here
\* of an empty table
LoadInit ==
    /\ runPc = "done"
    /\ runErr = NoErr
    /\ cpc = "closed"
    /\ cErr = NoErr
    /\ rcPc = "off"
    /\ ldRun.pc = "off"
    /\ \E ps \in 1..MaxPageSize :
        rStore' = Store(ListParts(s3parts, DOMAIN s3parts), ps, s3meta, FALSE)
    /\ rcPc' = "idle"
    /\ ldCfg' = [ldCfg EXCEPT !.AllowOverwrite = TRUE]
    /\ ldRun' = [ldRun EXCEPT !.pc = "start"]
    /\ UNCHANGED <<wvars, fvars, dvars, uvars, rPipe, rdPc, rd, rErr, rOut, rRet, rAfter, rFail>>
    /\ UNCHANGED <<table, ldStop, ldReader, errChan, ldw, ldStats, ldPuts>>

\* whether the json.Decoder inside ReadItem has to read from the S3Reader:
\* it holds no complete document that was not returned yet
DecoderNeedsData ==
    /\ ldReader.pc = "loop"
    /\ ~ldStop.notify
    /\ ldReader.pos = Len(Documents(rOut))
    /\ rErr = RNil

\* the json.Decoder calls S3Reader.Read
DecoderRead == DecoderNeedsData /\ (ReadFirst \/ ReadAgain)

\* the reader goroutine of the Loader at its select, default case: ReadItem
\* returns the item of the next document of the stream
DecodeItem ==
    /\ ldReader.pc = "loop"
    /\ ~ldStop.notify
    /\ rcPc = "idle"
    /\ ldReader.pos < Len(Documents(rOut))
    /\ ldReader' = [ldReader EXCEPT !.pc = "send",
                                    !.item = Decode(Documents(rOut)[ldReader.pos + 1]),
                                    !.pos = @ + 1]
    /\ UNCHANGED <<nonL, ldCfg, table, ldRun, ldStop, errChan, ldw, ldStats, ldPuts>>

\* ReadItem returns io.EOF: the stream ended after the last document
DecodeEOF ==
    /\ ldReader.pc = "loop"
    /\ ~ldStop.notify
    /\ rcPc = "idle"
    /\ ldReader.pos = Len(Documents(rOut))
    /\ rErr = REOF
    /\ ldReader' = [ldReader EXCEPT !.pc = "report", !.res = NoErr]
    /\ UNCHANGED <<nonL, ldCfg, table, ldRun, ldStop, errChan, ldw, ldStats, ldPuts>>

\* dumper.abort: the user's signal on abortChan
DumperAbort ==
    /\ dumpPc = "select"
    /\ ~abortChan
    /\ abortChan' = TRUE
    /\ UNCHANGED <<wvars, rvars, lvars, fvars, dvars, jvars, ovars, cvars, mvars, gvars,
                   dumpPc, dumpCalls>>

\* close(w.data) at the end of S3Writer.Close, whatever the goroutines that
\* call Write are doing: a Write that is waiting to send panics
CloseData(err) ==
    /\ chanClosed' = TRUE
    /\ cErr' = err
    /\ cpc' = IF cpc = "send" \/ chanClosed THEN "panic" ELSE "closed"

\* writers.Close: S3Writer.Close
WritersClose ==
    /\ CloseData(failed)
    /\ dumpCalls' = Append(dumpCalls, "Close")
    /\ UNCHANGED failed

\* writers.Abort: S3Writer.Abort, which latches "aborted" and closes
WritersAbort ==
    /\ Fail("aborted")
    /\ CloseData(failed')
    /\ dumpCalls' = Append(dumpCalls, "Abort")

\* a goroutine that does not wait for Run's result
RunResultReadyAlways(run) == TRUE

\* a value can be received from rerr: Fetcher.Run has returned
RunResultReady(run) == run.pc = "done"

\* the select's abort case: Fetcher.Stop, a send on stopRequest
DumpAbortStop ==
    /\ dumpPc = "select"
    /\ abortChan
    /\ fRun.pc # "start"
    /\ fStop.request < StopRequestCap
    /\ fStop' = [fStop EXCEPT !.request = @ + 1]
    /\ dumpPc' = "stopped"
    /\ abortChan' = FALSE
    /\ UNCHANGED <<wvars, rvars, lvars, dvars, jvars, ovars, cvars, mvars, gvars, dumpCalls>>
    /\ UNCHANGED <<fCfg, fRun, fErrChan, fReports, fw, fStats, sink>>

\* the abort case after Stop: receive Run's result from rerr, then
\* writers.Abort
DumpAbortClose ==
    /\ dumpPc = "stopped"
    /\ RunResultReady(fRun)
    /\ WritersAbort
    /\ dumpPc' = "closing"
    /\ UNCHANGED <<rvars, lvars, fvars, dvars, jvars, ovars, cvars, mvars, gvars, abortChan>>
    /\ UNCHANGED <<completed, late, runPc, runErr, md, partnum, metaHash, wpc, wl, s3parts,
                   s3meta, cRecs, cData>>

\* the select's case err := <-rerr: writers.Abort after an error,
\* writers.Close otherwise
DumpRunReturned ==
    /\ dumpPc = "select"
    /\ RunResultReady(fRun)
    /\ IF fRun.ret # NoErr THEN WritersAbort ELSE WritersClose
    /\ dumpPc' = "closing"
    /\ UNCHANGED <<rvars, lvars, fvars, dvars, jvars, ovars, cvars, mvars, gvars, abortChan>>
    /\ UNCHANGED <<completed, late, runPc, runErr, md, partnum, metaHash, wpc, wl, s3parts,
                   s3meta, cRecs, cData>>

\* writers.Close and writers.Abort receive the result of S3Writer.Run and
\* return
DumpDone ==
    /\ dumpPc = "closing"
    /\ runPc = "done"
    /\ dumpPc' = "done"
    /\ UNCHANGED <<wvars, rvars, lvars, fvars, dvars, jvars, ovars, cvars, mvars, gvars,
                   abortChan, dumpCalls>>

\* the dump command with an object store that does not fail
DumpNext ==
    \/ FRunStart
    \/ FStopper
    \/ FRunWait
    \/ FRunReturn
    \/ \E w \in FWorkers :
        \/ SegmentStopped(w)
        \/ Scan(w)
        \/ ScanFail(w)
        \/ EncodeItem(w)
        \/ EncodeItemDone(w)
        \/ ResponseDone(w)
        \/ CheckDone(w)
    \/ RunStart
    \/ RunFinish
    \/ \E w \in WWorkers :
        \/ WorkerRecv(w)
        \/ FlushStart(w)
        \/ FlushPut(w)
        \/ FlushComplete(w)
        \/ WorkerDrained(w)
    \/ DumperAbort
    \/ DumpAbortStop
    \/ DumpAbortClose
    \/ DumpRunReturned
    \/ DumpDone

\* the dump command followed by the load command, with services that do not
\* fail and no Stop or Abort
PipelineNext ==
    \/ FRunStart
    \/ FRunWait
    \/ FRunReturn
    \/ \E w \in FWorkers :
        \/ Scan(w)
        \/ EncodeItem(w)
        \/ EncodeItemDone(w)
        \/ ResponseDone(w)
        \/ CheckDone(w)
    \/ RunStart
    \/ RunFinish
    \/ DumpClose
    \/ \E w \in WWorkers :
        \/ WorkerRecv(w)
        \/ FlushStart(w)
        \/ FlushPut(w)
        \/ FlushComplete(w)
        \/ WorkerDrained(w)
    \/ LoadInit
    \/ DecoderRead
    \/ PipeReadClosed
    \/ Transfer
    \/ GetObject
    \/ PageDone
    \/ CopyDone
    \/ ListEnd
    \/ LRunStart
    \/ DecodeItem
    \/ DecodeEOF
    \/ RunReadDone
    \/ RunStop
    \/ Stopper
    \/ RunDrain
    \/ RunReturn
    \/ \E w \in LWorkers :
        \/ LoadRecv(w)
        \/ LoadPut(w)
        \/ LoadStopped(w)

vars == <<wvars, rvars, lvars, fvars, dvars, uvars>>

\* the S3Writer alone
InitWriter == WInit /\ RIdle /\ LIdle /\ FIdle /\ DIdle /\ UIdle

\* the S3Reader alone
InitReader == RInit /\ WIdle /\ LIdle /\ FIdle /\ DIdle /\ UIdle

\* the Loader alone
InitLoader == LInit /\ WIdle /\ RIdle /\ FIdle /\ DIdle /\ UIdle

\* the Fetcher alone
InitFetcher == FInit /\ WIdle /\ RIdle /\ LIdle /\ DIdle /\ UIdle

\* S3Writer with a client, no failures
SpecWriter == InitWriter /\ [][WNext]_vars

\* S3Writer with a client, with upload failures and Abort
SpecWriterFaults == InitWriter /\ [][WNext \/ WFaults]_vars

\* S3Reader with a consumer, no failures of the bucket's calls
\* the S3Writer with healthy services, its goroutines scheduled fairly
SpecWriterLive == InitWriter /\ [][WNext]_vars /\ WF_vars(WProgress)

\* the S3Writer with failing services and Abort, its goroutines scheduled
\* fairly
SpecWriterFaultsLive ==
    InitWriter /\ [][WNext \/ WFaults]_vars /\ WF_vars(WFaultyProgress)

SpecReader == InitReader /\ [][RNext]_vars

\* S3Reader with a consumer, with failing metadata, list, get and body reads
SpecReaderFaults == InitReader /\ [][RNext \/ RFaults]_vars

\* Loader whose user may call Stop, no failures
SpecLoader == InitLoader /\ [][LNext]_vars

\* Loader whose user may call Stop, with failing reads and puts
SpecLoaderFaults == InitLoader /\ [][LNext \/ LFaults]_vars

\* Fetcher whose user may call Stop, with failing scans
SpecFetcher == InitFetcher /\ [][FNext]_vars

\* Fetcher whose user may call Stop, with failing scans and a failing Writer
SpecFetcherFaults == InitFetcher /\ [][FNext \/ FFaults]_vars

\* every goroutine that can take a step is scheduled eventually; the user is
\* free not to call Stop
FFair ==
    /\ WF_vars(FRunNext)
    /\ WF_vars(FStopper)
    /\ \A w \in FWorkers : WF_vars(SegmentNext(w))

InitCodec ==
    JInit /\ WIdle /\ RIdle /\ LIdle /\ FIdle /\ DIdle /\ OIdle /\ CIdle /\ MIdle /\ GIdle
    /\ PIdle

\* one item encoded and decoded
SpecCodec == InitCodec /\ [][JNext]_vars

InitOpen ==
    OInit /\ WIdle /\ RIdle /\ LIdle /\ FIdle /\ DIdle /\ JIdle /\ CIdle /\ MIdle /\ GIdle
    /\ PIdle

\* the dump command opening its S3 writer
SpecOpen == InitOpen /\ [][ONext]_vars

\* S3Writer with failing uploads and every metadata upload split into its
\* call and its return
SpecWriterMeta == InitWriter /\ [][WMetaNext]_vars

InitLimit ==
    CInit /\ WIdle /\ RIdle /\ LIdle /\ FIdle /\ DIdle /\ JIdle /\ OIdle /\ MIdle /\ GIdle
    /\ PIdle

\* one segment's scan limit, recalculated from the sizes of the items read
SpecLimit == InitLimit /\ [][CNext]_vars

InitRate ==
    GInit /\ WIdle /\ RIdle /\ LIdle /\ FIdle /\ DIdle /\ JIdle /\ OIdle /\ CIdle /\ MIdle
    /\ PIdle

\* the dump command on the tables whose items all hold the same value: the
\* goroutine of dumper.start does not look at what is written
InitDump ==
    /\ WInit
    /\ \E n \in 0..MaxDumpItems :
        \E segs \in SegmentationsOf([i \in 1..n |-> DumpItem(i, AV("S", "x"))]) :
            FStart(segs, 0, MaxScanPage)
    /\ PInit /\ RIdle /\ LIdle /\ DIdle /\ JIdle /\ OIdle /\ CIdle /\ MIdle /\ GIdle

\* the dump command: the Fetcher, the S3Writer behind its encoder and the
\* goroutine of dumper.start, with failing scans and a user who may abort
SpecDump == InitDump /\ [][DumpNext]_vars

\* the Fetcher with its rate limit, failing scans and a user who may call Stop
SpecFetcherRate == InitRate /\ [][GNext]_vars

InitLoaderStops == LStopsInit /\ WIdle /\ RIdle /\ FIdle /\ DIdle /\ UIdle

\* the Loader with failing reads and puts and users who call Stop at any time
SpecLoaderStops == InitLoaderStops /\ [][LNext \/ LFaults \/ LStops]_vars

\* the Fetcher whose calls succeed, with its goroutines scheduled fairly
SpecFetcherLive == InitFetcher /\ [][FHealthyNext]_vars /\ FFair

InitDeleter == DInit /\ WIdle /\ RIdle /\ LIdle /\ FIdle /\ UIdle

\* Delete on a bucket whose calls all succeed
SpecDeleter == InitDeleter /\ [][DNext]_vars

\* Delete with failing calls and Abort
SpecDeleterFaults == InitDeleter /\ [][DNext \/ DFaults]_vars

\* Delete on a bucket whose calls all succeed, with Abort called at any time
SpecDeleterAbort == InitDeleter /\ [][DNext \/ DeleterAbort]_vars

\* the dump command on any table within the bounds, the load command idle
InitPipeline == DumpInit /\ RIdle /\ LIdle /\ DIdle /\ UIdle

\* a dump followed by a load of it
SpecPipeline == InitPipeline /\ [][PipelineNext]_vars

(***************************************************************************)
(* Claims about the S3Writer                                               *)
(***************************************************************************)
\* a run of the writer that ended with Run returning nil after Close
WriterSucceeded ==
    runPc = "done" /\ runErr = NoErr /\ failed = NoErr /\ cpc = "closed"

\* the uploaded part numbers, ascending
PartNumbers == DOMAIN s3parts

\* whether `sub` occurs in `s` as a contiguous block
Occurs(sub, s) ==
    \E off \in 0..(Len(s) - Len(sub)) :
        \A j \in 1..Len(sub) : s[off + j] = sub[j]

\* how many times byte b occurs in all uploaded parts together
ByteCount(b) ==
    SumSeq([k \in 1..Cardinality(PartNumbers) |->
        IF k \in PartNumbers
        THEN Cardinality({j \in 1..Len(s3parts[k].data) : s3parts[k].data[j] = b})
        ELSE 0])

\* every non-empty record is whole in exactly one part, and every byte
\* written is uploaded exactly once
RecordsWholeOnce ==
    /\ PartNumbers = 1..Cardinality(PartNumbers)
    /\ \A n \in 1..Len(cRecs) :
        /\ cRecs[n] > 0 =>
              Cardinality({k \in PartNumbers :
                  Occurs(RecBytes(n, cRecs[n]), s3parts[k].data)}) = 1
        /\ \A j \in 1..cRecs[n] : ByteCount(<<n, j>>) = 1
    /\ SumSeq([k \in 1..Cardinality(PartNumbers) |-> Len(s3parts[k].data)])
          = SumSeq(cRecs)

\* C1 (as claimed): after any sequence of Write calls followed by Close, with
\* no latched failure, every record is whole and exactly once in exactly one
\* uploaded part, and the final metadata has item_count equal to the number
\* of Write calls and uncompressed_bytes equal to the summed record lengths.
C1_RecordsAndCounts ==
    WriterSucceeded =>
        /\ RecordsWholeOnce
        /\ s3meta.ItemCount = Len(cRecs)
        /\ s3meta.UncompressedBytes = SumSeq(cRecs)

\* C1 holds of every run whose records are all non-empty
C1_NonEmptyRecords ==
    (WriterSucceeded /\ \A n \in 1..Len(cRecs) : cRecs[n] > 0) =>
        /\ RecordsWholeOnce
        /\ s3meta.ItemCount = Len(cRecs)
        /\ s3meta.UncompressedBytes = SumSeq(cRecs)

\* the aggregate document of the uploaded parts: the SHA-256 (hex) of each
\* part's uncompressed body, in ascending part-number order
PartHashesInOrder ==
    [k \in 1..Cardinality(PartNumbers) |-> Sha256Hex(s3parts[k].data)]

\* C2 (as claimed): at the end of a successful run the metadata hash is the
\* SHA-256 of the part hashes in ascending part-number order.
C2_MetaHashAlways ==
    WriterSucceeded => s3meta.Hash = Sha256Hex(PartHashesInOrder)

\* C2 (amended): at the end of a successful run that uploaded at least one
\* part the metadata hash is the SHA-256 of the newline-terminated part
\* hashes in ascending part-number order, whatever the order in which the
\* workers' completePart calls ran; with no part the hash is the empty string.
C2_MetaHashInOrder ==
    WriterSucceeded =>
        /\ PartNumbers = 1..s3meta.PartCount
        /\ s3meta.PartCount >= 1 => s3meta.Hash = Sha256Hex(PartHashesInOrder)
        /\ s3meta.PartCount = 0 => s3meta.Hash = NoHash

\* C2 witness: a successful run in which part 2 completed before part 1
C2_Witness ==
    /\ WriterSucceeded
    /\ Len(completed) >= 2
    /\ completed[1] > completed[2]

\* the client has called Write, Close or Abort and the call has returned
\* without sending data
ClientReturned == cpc' # "send" /\ (cErr' # cErr \/ cpc' # cpc)

\* a step in which Run returns
RunReturns == runPc # "done" /\ runPc' = "done"

FinalMetadata(m) ==
    /\ m.EndTime
    /\ m.Status = IF failed # NoErr THEN "failed" ELSE "completed"

\* C14: Run writes a metadata object with status running and no end time
\* before any part is uploaded; after Close or Abort every worker flushes its
\* tail if it holds at least one record and exits, and Run then eventually
\* returns having written exactly one final metadata object, with an end
\* time and status failed if a failure or Abort was latched and completed
\* otherwise; no metadata object is written after it.
C14_Lifecycle ==
    /\ [](s3parts # <<>> => s3meta # NoMeta)
    /\ [][(s3meta' # s3meta /\ ~RunReturns) =>
              s3meta'.Status = "running" /\ ~s3meta'.EndTime]_vars
    /\ [][(RunReturns /\ runPc = "wait") =>
              /\ \A w \in WWorkers : wpc[w] = "done" /\ wl[w].writeCount = 0
              /\ s3meta' # s3meta
              /\ FinalMetadata(s3meta')]_vars
    /\ [][runPc = "done" => s3meta' = s3meta]_vars
    /\ chanClosed ~> runPc = "done"

\* the lifecycle of C14 for workers whose tail holds at least one byte: a
\* worker that has not failed exits with no byte unflushed
LifecycleOfNonEmptyTails ==
    /\ [](s3parts # <<>> => s3meta # NoMeta)
    /\ [][(s3meta' # s3meta /\ ~RunReturns) =>
              s3meta'.Status = "running" /\ ~s3meta'.EndTime]_vars
    /\ [][(RunReturns /\ runPc = "wait") =>
              /\ \A w \in WWorkers :
                    wpc[w] = "done" /\ (~wl[w].failed => wl[w].rawPendingLen = 0)
              /\ s3meta' # s3meta
              /\ FinalMetadata(s3meta')]_vars
    /\ [][runPc = "done" => s3meta' = s3meta]_vars
    /\ chanClosed ~> runPc = "done"

\* the part numbers whose completePart has run
CompletedParts == {completed[i] : i \in 1..Len(completed)}

\* the highest n such that parts 1..n have all been through completePart,
\* which is when their hashes can have been folded into the aggregate
FoldedUpTo ==
    CHOOSE n \in 0..Len(completed) :
        /\ \A i \in 1..n : i \in CompletedParts
        /\ (n + 1) \notin CompletedParts

\* C15: in every metadata object written, last_hashed equals the highest
\* part number n such that the hashes of parts 1..n have all been folded into
\* the aggregate, so 0 <= last_hashed <= part_count, also when parts
\* complete out of part-number order; in the final metadata of a successful
\* run last_hashed equals part_count.
C15_LastHashed ==
    s3meta # NoMeta =>
        /\ s3meta.LastHashed = FoldedUpTo
        /\ 0 <= s3meta.LastHashed
        /\ s3meta.LastHashed <= s3meta.PartCount
        /\ WriterSucceeded => s3meta.LastHashed = s3meta.PartCount

\* what the metadata objects hold instead: last_hashed is -1 while parts have
\* completed and part 1 is not among them, and the highest folded part
\* number otherwise
LastHashedOrUnset ==
    s3meta # NoMeta =>
        /\ s3meta.LastHashed =
              IF completed # <<>> /\ FoldedUpTo = 0 THEN -1 ELSE FoldedUpTo
        /\ s3meta.LastHashed <= s3meta.PartCount
        /\ s3meta.PartCount = Len(completed)
        /\ WriterSucceeded => s3meta.LastHashed = s3meta.PartCount

(***************************************************************************)
(* Claims about the S3Reader                                               *)
(***************************************************************************)
\* the part objects in the order the listing yields them across the pages
Listed == Flatten(rStore.pages)

\* the bodies of the first k listed parts, concatenated
BodiesUpTo(k) == Flatten([i \in 1..k |-> Listed[i].body])

IsPrefix(s, t) == Len(s) <= Len(t) /\ s = SubSeq(t, 1, Len(s))

\* a Read call has returned a non-nil error: the stream has ended
StreamEnded == rErr # RNil

\* the stored hash of the i-th listed part differs from the hash of its body
Mismatches(i) ==
    Listed[i].sha # NoHash /\ Listed[i].sha # Sha256Hex(Listed[i].body)

\* the hashes of the listed parts that carry a stored hash, in list order
RECURSIVE HashedParts(_)
HashedParts(objs) ==
    IF objs = <<>> THEN <<>>
    ELSE (IF Head(objs).sha # NoHash THEN <<Sha256Hex(Head(objs).body)>> ELSE <<>>)
         \o HashedParts(Tail(objs))

\* the aggregate hash a complete integrity-checked read computes
AggregateRead == Sha256Hex(HashedParts(Listed))

\* all stored hashes and the part count are consistent: no stored part hash
\* differs from its body's hash, the metadata counts the listed parts, and a
\* metadata hash, if there is one, is the aggregate of the part hashes
Consistent ==
    /\ \A i \in 1..Len(Listed) : ~Mismatches(i)
    /\ rStore.meta.PartCount = Len(Listed)
    /\ rStore.meta.Hash \in {NoHash, AggregateRead}

\* C3: when all stored hashes and the part count are consistent, the bytes
\* Read has returned are at every moment a prefix of the concatenation of the
\* part bodies in list order across all pages, and once a Read returns an
\* error that error is io.EOF and the bytes returned are the whole
\* concatenation.
C3_ReadIsConcatenation ==
    Consistent =>
        /\ IsPrefix(rOut, BodiesUpTo(Len(Listed)))
        /\ rPipe.done => rPipe.werr = REOF
        /\ StreamEnded => rErr = REOF /\ rOut = BodiesUpTo(Len(Listed))

\* a consistent dump of three non-empty parts on two pages, checks on, with
\* a metadata hash, read to its end
C3_Witness ==
    /\ Consistent
    /\ ~rStore.skip
    /\ rStore.meta.Hash # NoHash
    /\ rStore.meta.LastHashed = rStore.meta.PartCount
    /\ Len(rStore.pages) = 2
    /\ Len(Listed) = 3
    /\ \A i \in 1..3 : Listed[i].body # <<>> /\ Listed[i].sha # NoHash
    /\ StreamEnded
    /\ rOut = BodiesUpTo(3)

\* the first listed part whose stored hash mismatches (0 if there is none)
FirstMismatch ==
    IF \E i \in 1..Len(Listed) : Mismatches(i)
    THEN CHOOSE i \in 1..Len(Listed) :
            Mismatches(i) /\ \A j \in 1..(i - 1) : ~Mismatches(j)
    ELSE 0

\* C9: with integrity checking on, if the stored hash of some part differs
\* from the SHA-256 of its body, then for the first such part in list order:
\* the pipe is never closed with anything but the part-hash-mismatch error
\* naming that key (so the stream never ends normally), a stream that has
\* ended has ended with that error after delivering all bytes of the parts
\* up to and including that part, and at no moment has a byte of a later
\* part been delivered.
C9_PartHashMismatch ==
    (~rStore.skip /\ FirstMismatch > 0) =>
        LET bad == RErr("mismatch", Listed[FirstMismatch].key)
        IN /\ rPipe.done => rPipe.werr = bad
           /\ StreamEnded => rErr = bad /\ rOut = BodiesUpTo(FirstMismatch)
           /\ IsPrefix(rOut, BodiesUpTo(FirstMismatch))

\* the second of three non-empty parts mismatches: the stream has ended with
\* the error after the reader goroutine was refused the third part's bytes
C9_Witness ==
    /\ ~rStore.skip
    /\ Len(Listed) = 3
    /\ FirstMismatch = 2
    /\ \A i \in 1..3 : Listed[i].body # <<>>
    /\ StreamEnded
    /\ rErr = RErr("mismatch", 2)
    /\ rd.closed
    /\ rOut = BodiesUpTo(2)

\* the aggregate check of C10 applies: checks on, a metadata hash, and
\* last_hashed equal to part_count
AggregateChecked ==
    /\ ~rStore.skip
    /\ rStore.meta.Hash # NoHash
    /\ rStore.meta.LastHashed = rStore.meta.PartCount

\* C10 as claimed: when the aggregate check applies and the aggregate
\* computed while reading differs from the metadata hash, the stream does
\* not end normally; when the two agree and the part count matches, the
\* stream ends normally.
C10_AggregateAsClaimed ==
    /\ (AggregateChecked /\ AggregateRead # rStore.meta.Hash) =>
            /\ rPipe.done => rPipe.werr # REOF
            /\ StreamEnded => rErr # REOF
    /\ (AggregateChecked /\ AggregateRead = rStore.meta.Hash
            /\ rStore.meta.PartCount = Len(Listed)) =>
            /\ rPipe.done => rPipe.werr = REOF
            /\ StreamEnded => rErr = REOF

\* C10 (amended): when the aggregate check applies and the aggregate computed
\* while reading differs from the metadata hash, the stream does not end
\* normally; when the two agree, the part count matches and no part's stored
\* hash mismatches, the stream ends normally.
C10_AggregateCheck ==
    /\ (AggregateChecked /\ AggregateRead # rStore.meta.Hash) =>
            /\ rPipe.done => rPipe.werr # REOF
            /\ StreamEnded => rErr # REOF
    /\ (AggregateChecked /\ AggregateRead = rStore.meta.Hash
            /\ rStore.meta.PartCount = Len(Listed) /\ FirstMismatch = 0) =>
            /\ rPipe.done => rPipe.werr = REOF
            /\ StreamEnded => rErr = REOF

\* every part hash is right and the part count matches, only the metadata
\* hash is wrong: the stream has ended with the corrupt-restore error
C10_Witness ==
    /\ AggregateChecked
    /\ AggregateRead # rStore.meta.Hash
    /\ FirstMismatch = 0
    /\ rStore.meta.PartCount = Len(Listed)
    /\ Len(Listed) = 3
    /\ StreamEnded
    /\ rErr = RErr("corrupt", 0)
    /\ rOut = BodiesUpTo(3)

\* the metadata declares a positive part count that differs from the number
\* of listed parts
CountDiffers == rStore.meta.PartCount > 0 /\ Len(Listed) # rStore.meta.PartCount

\* the reader goroutine came to the end of the listing
ListingEnded == rdPc = "exit" /\ ~rd.closed

\* C11 as claimed: with integrity checking on, once the listing has ended
\* with a positive metadata part_count that differs from the number of parts
\* read, the stream is closed with the incomplete-restore error, and a read
\* that ends, ends with it.
C11_IncompleteAsClaimed ==
    (~rStore.skip /\ CountDiffers /\ ListingEnded) =>
        /\ rd.partCount = Len(Listed)
        /\ rPipe.done /\ rPipe.werr = RErr("incomplete", 0)
        /\ StreamEnded => rErr = RErr("incomplete", 0)

\* C11 (amended): with integrity checking on and a positive metadata
\* part_count that differs from the number of listed parts, the stream never
\* ends normally; once the listing has ended the stream is closed, with the
\* incomplete-restore error when no part's stored hash mismatched and with
\* the error of the first mismatching part otherwise, and a read that ends
\* without a mismatch has delivered the bytes of all listed parts.
C11_IncompleteRestore ==
    (~rStore.skip /\ CountDiffers) =>
        LET err == IF FirstMismatch = 0 THEN RErr("incomplete", 0)
                   ELSE RErr("mismatch", Listed[FirstMismatch].key)
        IN /\ rPipe.done => rPipe.werr = err
           /\ StreamEnded => rErr = err
           /\ ListingEnded => rPipe.done /\ rd.partCount = Len(Listed)
           /\ (StreamEnded /\ FirstMismatch = 0) => rOut = BodiesUpTo(Len(Listed))

\* three parts without a mismatch were read where the metadata declares two:
\* the read has ended with the incomplete-restore error after all the bytes
C11_Witness ==
    /\ ~rStore.skip
    /\ Len(Listed) = 3
    /\ rStore.meta.PartCount = 2
    /\ FirstMismatch = 0
    /\ ListingEnded
    /\ StreamEnded
    /\ rErr = RErr("incomplete", 0)
    /\ rOut = BodiesUpTo(3)

\* C12: with SkipIntegrityCheck set no integrity check is applied: whatever
\* the stored part hashes, the metadata hash and the metadata part_count, the
\* bytes returned are always a prefix of the concatenation of all listed
\* parts, the stream is never closed with an error, and a read that ends has
\* delivered all the bytes and ends with io.EOF.
C12_SkipChecks ==
    rStore.skip =>
        /\ IsPrefix(rOut, BodiesUpTo(Len(Listed)))
        /\ rPipe.done => rPipe.werr = REOF
        /\ StreamEnded => rErr = REOF /\ rOut = BodiesUpTo(Len(Listed))

(***************************************************************************)
(* Claims about the Loader                                                 *)
(***************************************************************************)
\* Run has returned
LoaderReturned == ldRun.pc = "done"

\* the items PutItem was called with, in call order
PutItems == [i \in 1..Len(ldPuts) |-> ldPuts[i].item]

\* the number of PutItem calls made with the i-th item of the source
PutCount(i) ==
    Cardinality({j \in 1..Len(ldPuts) : ldPuts[j].item = ldCfg.source[i]})

\* the number of items the reader goroutine hands over before it stops by
\* itself: all of them, or MaxItems of them when MaxItems is set and smaller
ItemsDue ==
    IF ldCfg.MaxItems > 0 THEN Min(ldCfg.MaxItems, Len(ldCfg.source))
    ELSE Len(ldCfg.source)

\* C6: when the source yields its items and then end-of-stream, every put
\* succeeds and Stop is not called, then once Run has returned it has
\* returned nil, every item of the source (up to MaxItems, when set) has been
\* put exactly once and nothing else has been put, and every writer
\* goroutine has exited holding no item.
C6_RunReturnsAfterAllPuts ==
    (ldStop.user = 0 /\ ldCfg.AllowOverwrite /\ LoaderReturned) =>
        /\ ldRun.ret = NoErr
        /\ Len(ldPuts) = ItemsDue
        /\ \A i \in 1..ItemsDue : PutCount(i) = 1
        /\ \A j \in 1..Len(ldPuts) : ldPuts[j].outcome = "written"
        /\ \A w \in LWorkers : ldw[w].pc = "exit" /\ ldw[w].item = NoItem

\* Run has returned from a load of three items, no MaxItems, in which both
\* writer goroutines made a put
C6_Witness ==
    /\ ldStop.user = 0
    /\ ldCfg.AllowOverwrite
    /\ ldCfg.MaxItems = 0
    /\ LoaderReturned
    /\ Len(ldCfg.source) = 3
    /\ Len(ldPuts) = 3
    /\ ldPuts[1].item = ldCfg.source[2]

\* C7 as claimed: items-written + items-skipped never exceeds the number of
\* items the reader goroutine has obtained from the source, and the two are
\* equal whenever Run has returned nil, a run ended by Stop included.
C7_CountsAsClaimed ==
    /\ ldStats.itemsWritten + ldStats.itemsSkipped <= ldReader.pos
    /\ (LoaderReturned /\ ldRun.ret = NoErr) =>
            ldStats.itemsWritten + ldStats.itemsSkipped = ldReader.pos

\* C7, what holds: the sum never exceeds the number of items read; it equals
\* that number whenever Run has returned nil and Stop was not called; after a
\* Stop call the reader goroutine can be left holding the one item it read
\* last.
C7_CountsWithoutStop ==
    /\ ldStats.itemsWritten + ldStats.itemsSkipped <= ldReader.pos
    /\ (LoaderReturned /\ ldRun.ret = NoErr /\ ldStop.user = 0) =>
            ldStats.itemsWritten + ldStats.itemsSkipped = ldReader.pos
    /\ (LoaderReturned /\ ldRun.ret = NoErr) =>
            ldReader.pos - (ldStats.itemsWritten + ldStats.itemsSkipped) <= 1

\* the rows the table held before the load are all still there, unchanged
OldRowsUnchanged ==
    \A k \in DOMAIN ldCfg.table0 : k \in DOMAIN table /\ table[k] = ldCfg.table0[k]

\* the number of PutItem calls with the given outcome
Outcomes(o) == Cardinality({j \in 1..Len(ldPuts) : ldPuts[j].outcome = o})

\* the source is a dump of the table as it was before the load: one item per
\* row, holding the row
IsReload ==
    /\ Len(ldCfg.source) = Cardinality(DOMAIN ldCfg.table0)
    /\ \A k \in DOMAIN ldCfg.table0 :
            \E i \in 1..Len(ldCfg.source) : ldCfg.source[i].key = k

\* C8: with allow-overwrite false, every put whose key had a row is counted
\* as skipped and leaves the table as it was, every other put is written and
\* counted; the counters are the numbers of such puts; the rows the table held
\* before the load are never changed; no writer goroutine exits and Run
\* returns no error because of a failed condition; and when Run has returned
\* from reloading a dump of the table (no Stop, no MaxItems), items-skipped is
\* the number of items in the dump and the table is what it was.
C8_NoOverwrite ==
    ~ldCfg.AllowOverwrite =>
        /\ \A j \in 1..Len(ldPuts) :
            LET p == ldPuts[j]
                after == IF j < Len(ldPuts) THEN ldPuts[j + 1].before ELSE table
            IN IF p.item.key \in DOMAIN p.before
               THEN p.outcome = "skipped" /\ after = p.before
               ELSE p.outcome = "written" /\ after = PutItem(p.before, p.item)
        /\ ldStats.itemsSkipped = Outcomes("skipped")
        /\ ldStats.itemsWritten = Outcomes("written")
        /\ OldRowsUnchanged
        /\ \A w \in LWorkers : ldw[w].pc = "exit" => ldStop.notify
        /\ LoaderReturned => ldRun.ret = NoErr
        /\ (LoaderReturned /\ ldStop.user = 0 /\ ldCfg.MaxItems = 0 /\ IsReload) =>
                /\ ldStats.itemsSkipped = Len(ldCfg.source)
                /\ ldStats.itemsWritten = 0
                /\ table = ldCfg.table0

\* Run has returned from a load of three items with overwrite disabled into
\* a table that held a row for the second item's key: two items written, one
\* skipped
C8_Witness ==
    /\ ~ldCfg.AllowOverwrite
    /\ LoaderReturned
    /\ ldStop.user = 0
    /\ Len(ldCfg.source) = 3
    /\ ldCfg.source[2].key \in DOMAIN ldCfg.table0
    /\ ldStats.itemsWritten = 2
    /\ ldStats.itemsSkipped = 1
    /\ OldRowsUnchanged

(***************************************************************************)
(* Claims about the Fetcher                                                *)
(***************************************************************************)
\* Fetcher.Run has returned
FetcherReturned == fRun.pc = "done"

\* the items the Scan calls have returned so far
Scanned ==
    UNION {{fCfg.segments[w][i] : i \in 1..fw[w].pos} : w \in FWorkers}

\* the number of WriteItem calls made with the item it
WriteCount(it) == Cardinality({j \in 1..Len(sink) : sink[j] = it})

\* C5: with a Writer that never returns an error, no item is passed to
\* WriteItem twice and only items a Scan call returned are passed; once Run
\* has returned, however the run ended, every item a Scan call returned has
\* been passed to WriteItem exactly once and the items-read statistic is the
\* number of WriteItem calls made.
C5_EveryItemWrittenOnce ==
    /\ \A j \in 1..Len(sink) : sink[j] \in Scanned /\ WriteCount(sink[j]) = 1
    /\ FetcherReturned =>
        /\ \A it \in Scanned : WriteCount(it) = 1
        /\ fStats.itemsRead = Len(sink)

\* Run has returned a scan error after a Stop call, with two items written
C5_Witness ==
    /\ FetcherReturned
    /\ fRun.ret = "scanerr"
    /\ fStop.user = 1
    /\ Len(sink) = 2
    /\ fStats.itemsRead = 2

(***************************************************************************)
(* Claims about a dump followed by a load                                  *)
(***************************************************************************)

\* the item set of the dumped table
DumpedItems ==
    UNION {{fCfg.segments[w][i] : i \in 1..Len(fCfg.segments[w])} : w \in FWorkers}

\* the item set of the table that was loaded
TableItems == {table[k] : k \in DOMAIN table}

\* the load of a successful dump has returned nil
LoadSucceeded ==
    /\ ldCfg.AllowOverwrite
    /\ ldRun.pc = "done"
    /\ ldRun.ret = NoErr

\* C4: after a dump of the item set S that completed successfully and a load
\* of that dump into an empty table with allow-overwrite, the item set of the
\* target table equals S.
C4_DumpThenLoad == LoadSucceeded => TableItems = DumpedItems

\* whether an attribute value holds a list without elements, at any depth
RECURSIVE HasEmptyList(_)
HasEmptyList(av) ==
    av.t = "L" /\ (Len(av.v) = 0 \/ \E i \in 1..Len(av.v) : HasEmptyList(av.v[i]))

\* the round trip of C4 holds for the tables none of whose items holds an
\* empty list
DumpThenLoadWithoutEmptyLists ==
    (LoadSucceeded /\ \A it \in DumpedItems : ~HasEmptyList(it.val))
        => TableItems = DumpedItems

\* a table of two items without empty lists went through a dump of two parts
\* and a load
DumpThenLoadWitness ==
    /\ LoadSucceeded
    /\ Cardinality(DumpedItems) = MaxDumpItems
    /\ \A it \in DumpedItems : ~HasEmptyList(it.val)
    /\ Cardinality(DOMAIN s3parts) >= 2

(***************************************************************************)
(* S3Deleter claims                                                        *)
(***************************************************************************)
\* the keys <prefix>-part-<9 digits>.json.gz, with the dots taken literally
PartKeyPattern ==
    [i \in 1..Len(S3PartPrefix) |-> {S3PartPrefix[i]}]
    \o [i \in 1..PartDigits |-> DigitChars]
    \o <<{"."}, {"j"}, {"s"}, {"o"}, {"n"}, {"."}, {"g"}, {"z"}>>

IsPartKey(k) == Match(PartKeyPattern, k)

\* the listed keys, in listing order
RECURSIVE ListedKeys(_)
ListedKeys(pages) ==
    IF pages = <<>> THEN <<>> ELSE Head(pages) \o ListedKeys(Tail(pages))

\* the delete requests for the part keys of the pages, page by page, a page
\* without part keys asking for nothing
RECURSIVE PartRequests(_)
PartRequests(pages) ==
    IF pages = <<>> THEN <<>>
    ELSE LET keys == SelectSeq(Head(pages), IsPartKey)
         IN (IF keys # <<>> THEN <<keys>> ELSE <<>>) \o PartRequests(Tail(pages))

\* the keys a delete was requested for so far
Requested == UNION {KeySet(dReqs[i]) : i \in 1..Len(dReqs)}

\* C16: Delete over a listing with part keys and unrelated keys, all calls
\* succeeding and no Abort: the delete requests are exactly the listed keys
\* that match <prefix>-part-<9 digits>.json.gz, page by page in listing
\* order, followed by the metadata key; no other key is ever deleted, and
\* Completed() then equals the number of part keys deleted.
C16_DeleteParts ==
    /\ \A k \in Requested : IsPartKey(k) \/ k = S3MetaKey
    /\ \A k \in KeySet(ListedKeys(dStore)) : IsPartKey(k) \/ k \in dBucket
    /\ dl.pc = "done" =>
          /\ dReqs = PartRequests(dStore) \o <<<<S3MetaKey>>>>
          /\ delcount = Len(SelectSeq(ListedKeys(dStore), IsPartKey))

\* the listing holds no key that differs from a part key only where the
\* pattern has a dot
NoNearPartKey == \A k \in KeySet(ListedKeys(dStore)) : Match(IsPart, k) => IsPartKey(k)

\* the statement of C16 holds for the listings without such a key
DeletePartsWithoutNearKeys == NoNearPartKey => C16_DeleteParts

\* a Delete that returned after a listing of two pages with two part keys and
\* the unrelated sibling
DeletePartsWitness ==
    /\ dl.pc = "done"
    /\ NoNearPartKey
    /\ Len(dStore) = 2
    /\ delcount = MaxDelParts
    /\ SiblingKey \in dBucket

\* Delete has processed every page of the listing with every delete of a part
\* successful
AllPagesDeleted ==
    /\ dl.isCompleted
    /\ dl.page = Len(dStore)
    /\ dl.err = NoErr
    /\ dl.s3err = NoErr
    /\ \A k \in KeySet(ListedKeys(dStore)) : Match(IsPart, k) => k \notin dBucket

\* C17: the metadata key is deleted only after the last list page has been
\* processed with every part delete successful; if the list call fails, a
\* delete call fails, a per-key error is reported, or Abort takes effect
\* before the last page, the metadata object is left in place, so that a
\* later NewS3Deleter on the same prefix still finds it.
C17_MetadataLast ==
    /\ S3MetaKey \in Requested => AllPagesDeleted
    /\ S3MetaKey \notin dBucket => AllPagesDeleted
    /\ (dl.pc = "done" /\ (dl.s3err # NoErr \/ dl.err # NoErr \/ ~dl.isCompleted)) =>
          /\ S3MetaKey \in dBucket
          /\ S3MetaKey \notin Requested

\* a Delete that was aborted after its first page deleted a part, and
\* returned with the metadata and the second page's part in place
C17_Witness ==
    /\ dl.pc = "done"
    /\ dAbort
    /\ ~dl.isCompleted
    /\ delcount > 0
    /\ S3MetaKey \in dBucket
    /\ \E k \in dBucket : IsPartKey(k)

(***************************************************************************)
(* Fetcher.Run and Stop claims                                             *)
(***************************************************************************)
\* the first error in a sequence of reports, nil if it holds none
RECURSIVE FirstErrorOf(_)
FirstErrorOf(reports) ==
    IF reports = <<>> THEN NoErr
    ELSE IF Head(reports) # NoErr THEN Head(reports)
    ELSE FirstErrorOf(Tail(reports))

\* the reports Run has received from errChan
ReceivedReports == SubSeq(fReports, 1, Len(fReports) - Len(fErrChan))

\* C18: when a worker's scan call or sink write returns an error, Run
\* signals stop to the other workers, returns only after all MaxParallel
\* workers have exited, and returns the first worker error it received; it
\* returns nil when no worker reported an error.
C18_RunErrors ==
    /\ fRun.err = FirstErrorOf(ReceivedReports)
    /\ fRun.err # NoErr => (fStop.notify \/ fStop.request > 0)
    /\ fRun.pc = "done" =>
          /\ \A w \in FWorkers : fw[w].pc = "exit"
          /\ Len(fReports) = FMaxParallel
          /\ fErrChan = <<>>
          /\ fRun.ret = FirstErrorOf(fReports)

\* Run returned the scan error of one worker although the other worker
\* reported a write error after it
C18_Witness ==
    /\ fRun.pc = "done"
    /\ fReports = <<"scanerr", "writeerr">>
    /\ fRun.ret = "scanerr"
    /\ fStop.notify

\* the items the Scan calls of segment goroutine w have returned
Returned(w) == SubSeq(fCfg.segments[w], 1, fw[w].pos)

\* the number of items returned to the segment goroutines 1..w
RECURSIVE ReturnedUpTo(_)
ReturnedUpTo(w) == IF w = 0 THEN 0 ELSE fw[w].pos + ReturnedUpTo(w - 1)

\* the user has called Stop
StopCalled == fStop.user > 0

\* a segment goroutine that has exited has passed every item returned to it
\* to the sink, and when Run returns all of them are counted
InFlightFinished ==
    /\ \A w \in FWorkers :
          fw[w].pc = "exit" =>
              \A i \in 1..fw[w].pos : \E j \in 1..Len(sink) : sink[j] = Returned(w)[i]
    /\ fRun.pc = "done" =>
          /\ fStats.itemsRead = ReturnedUpTo(FMaxParallel)
          /\ Len(sink) = fStats.itemsRead

\* a segment goroutine exits only at the top of its loop or after it has
\* counted the items of its response, and takes a response only when it has
\* not found stopNotify closed
NoScanAfterStop ==
    \A w \in FWorkers :
        /\ (fw[w].pc # "exit" /\ fw'[w].pc = "exit") => fw[w].pc \in {"loop", "check"}
        /\ (fw[w].pc = "loop" /\ fw'[w].pc = "write") => ~fStop.notify
        /\ fw[w].pc = "exit" => fw'[w] = fw[w]

\* C19: Stop during Run: every worker finishes the request it has in flight
\* (its items are still passed to the sink and counted), issues no further
\* scan request once it has observed the stop signal, and Run eventually
\* returns nil.
C19_Stop ==
    /\ []InFlightFinished
    /\ [][NoScanAfterStop]_vars
    /\ StopCalled ~> (fRun.pc = "done" /\ fRun.ret = NoErr)

\* Run returned nil after a Stop that left part of a segment unscanned, with
\* the items of the responses received passed to the sink
C19_Witness ==
    /\ StopCalled
    /\ fRun.pc = "done"
    /\ fRun.ret = NoErr
    /\ sink # <<>>
    /\ \E w \in FWorkers : fw[w].pos < Len(fCfg.segments[w])
    /\ \A w \in FWorkers : fw[w].last

(***************************************************************************)
(* Loader.Run error claims                                                 *)
(***************************************************************************)
\* Source.ReadItem has returned an error other than io.EOF
SourceFailed == ldReader.res = "readerr"

\* a PutItem call has returned an error other than a failed condition
PutFailed == \E i \in 1..Len(ldPuts) : ldPuts[i].outcome = "failed"

\* Run has returned after a stop signal, with every writer goroutine gone,
\* and its result is an error that the source or a put returned
RunReturnedError ==
    /\ \A w \in LWorkers : ldw[w].pc = "exit"
    /\ ldStop.notify \/ ldStop.request > 0
    /\ \/ ldRun.ret = "readerr" /\ SourceFailed
       \/ ldRun.ret = "puterr" /\ PutFailed

\* the error Run holds is the first one it received, and is never replaced
FirstErrorKept ==
    /\ ldRun.err # NoErr => ldRun'.err = ldRun.err
    /\ (ldRun.err = NoErr /\ errChan # <<>> /\ errChan' = Tail(errChan)) =>
          ldRun'.err = Head(errChan)
    /\ (ldReader.pc = "report" /\ ldReader'.pc = "exit") => ldRun'.err = ldReader.res
    /\ ldRun'.pc = "done" /\ ldRun.pc # "done" => ldRun'.ret = ldRun.err

\* C20: if the source returns an error other than end-of-stream, or a put
\* returns an error other than a conditional-check failure, Run signals
\* stop, waits for every writer goroutine to exit and returns the first such
\* error; a later error does not replace it.
C20_RunErrors ==
    /\ []((ldRun.pc = "done" /\ (SourceFailed \/ PutFailed)) => RunReturnedError)
    /\ [][FirstErrorKept]_vars

\* the statement of C20 holds in the runs in which the user does not call
\* Stop
RunErrorsWithoutStop ==
    /\ []((ldRun.pc = "done" /\ ldStop.user = 0 /\ (SourceFailed \/ PutFailed))
             => RunReturnedError)
    /\ [][FirstErrorKept]_vars

\* without a Stop call, Run returned the error of a put although the source
\* failed too
RunErrorsWitness ==
    /\ ldRun.pc = "done"
    /\ ldStop.user = 0
    /\ SourceFailed
    /\ PutFailed
    /\ ldRun.ret = "puterr"

(***************************************************************************)
(* Fetcher.MaxItems claims                                                 *)
(***************************************************************************)
\* Run has returned from a scan with MaxItems set
LimitedRunReturned == fRun.pc = "done" /\ fCfg.MaxItems > 0

\* C21 as stated: Fetcher with MaxItems M > 0 and any number of workers: when
\* Run returns the items-read total is less than M plus the size of one scan
\* batch.
C21_WithinOneBatchAsClaimed ==
    LimitedRunReturned => fStats.itemsRead < fCfg.MaxItems + fCfg.Limit

\* C21: Fetcher with MaxItems M > 0: when Run returns the items-read total
\* is less than M plus one scan batch for each of the MaxParallel workers.
C21_WithinOneBatchPerWorker ==
    LimitedRunReturned => fStats.itemsRead < fCfg.MaxItems + FMaxParallel * fCfg.Limit

\* with M = 1 and batches of one item both workers counted a batch before
\* either compared the total with M
C21_Witness ==
    /\ LimitedRunReturned
    /\ fCfg.MaxItems = 1
    /\ fCfg.Limit = 1
    /\ fStats.itemsRead = FMaxParallel
    /\ ~StopCalled
    /\ fRun.ret = NoErr
    /\ \E w \in FWorkers : fw[w].pos < Len(fCfg.segments[w])

(***************************************************************************)
(* Loader.Stop claims                                                      *)
(***************************************************************************)
\* nothing will receive from stopRequest any more
NoStopReceiver == ldStop.stopper = "done" /\ ldStop.request = StopRequestCap

\* a Stop caller waits for ever: on the nil channel, or on the full buffer
\* with the stopper gone
StopCallerStuck ==
    \/ ldStop.nilBlocked > 0
    \/ ldStop.blocked > 0 /\ NoStopReceiver

\* Run waits for ever in one of its own sends on stopRequest
RunStuck ==
    /\ NoStopReceiver
    /\ \/ ldRun.pc = "stop"
       \/ /\ ldRun.pc = "drain"
          /\ ~DrainDone(ldRun)
          /\ errChan # <<>>
          /\ Head(errChan) # NoErr
          /\ ldRun.err = NoErr

\* C22: Loader.Stop never blocks its caller: for any number of Stop calls
\* made before, during or after Run, together with the stop requests Run
\* issues itself, each Stop call returns and Run still returns.
C22_StopNeverBlocks == ~StopCallerStuck /\ ~RunStuck

\* with at most one Stop call, made after Run has started, neither the
\* caller nor Run waits for ever
OneStopNeverBlocks ==
    (ldStop.user <= 1 /\ ldStop.nilBlocked = 0) => (~StopCallerStuck /\ ~RunStuck)

\* Run has issued both of its stop requests after one Stop call
OneStopWitness ==
    /\ ldStop.user = 1
    /\ ldStop.nilBlocked = 0
    /\ ldStop.request = StopRequestCap
    /\ ldRun.pc = "done"
    /\ ldRun.ret = "puterr"

(***************************************************************************)
(* Item codec claims                                                       *)
(***************************************************************************)
\* whether an attribute value holds an empty list or map, at any depth
RECURSIVE HasEmptyCollection(_)
HasEmptyCollection(av) ==
    av.t \in {"L", "M"} /\
        (DOMAIN av.v = {} \/ \E i \in DOMAIN av.v : HasEmptyCollection(av.v[i]))

\* C23: for every item of the data model (values of each of the ten
\* variants, where lists and maps may be empty), decoding with SimpleDecoder
\* the line that SimpleEncoder wrote for the item yields an item equal to the
\* original.
C23_RoundTrip == jPc = "done" => jOut = jItem

\* the round trip is the identity on the items without an empty list or map
RoundTripWithoutEmpty ==
    (jPc = "done" /\ ~HasEmptyCollection(jItem.val)) => jOut = jItem

\* a map that holds a list of a binary value went through the codec
RoundTripWitness ==
    /\ jPc = "done"
    /\ jItem.val = AV("M", "k" :> AV("L", <<AV("B", <<1>>)>>))
    /\ jOut = jItem

(***************************************************************************)
(* dumper.openS3Writer claims                                              *)
(***************************************************************************)
\* a metadata object lay at <prefix>-meta.json when the dump started
MetadataExisted == "meta" \in DOMAIN oBucket0

\* openS3Writer has returned
OpenReturned == oPc \in {"opened", "failed", "running"}

\* C24 as stated: if a metadata object already exists, opening the writer
\* fails with a backup-already-exists error and no object under the prefix is
\* written or overwritten; a writer is created only when the metadata get
\* fails with the not-found error kind, and any other get error aborts the
\* dump.
C24_OpenAsClaimed ==
    /\ MetadataExisted => oBucket = oBucket0
    /\ (MetadataExisted /\ OpenReturned) =>
          /\ ~oRet.writer
          /\ oGet.err \notin OtherGetErrors => oRet.err = "exists"
    /\ (OpenReturned /\ oRet.writer) => oGet.err = NoSuchKey
    /\ (OpenReturned /\ oGet.err \notin {NoErr, NoSuchKey}) => (~oRet.writer /\ oRet.err # NoErr)
    /\ ~oRet.writer => oBucket = oBucket0

\* C24 (amended): if a metadata object already exists, opening the writer
\* fails and no object under the prefix is written or overwritten; the error
\* is backup-already-exists when the object is fetched and decodes, and the
\* metadata-request error when it does not decode; a writer is created only
\* when the get fails with the not-found error kind, and any other get error
\* aborts the dump.
C24_Open ==
    /\ MetadataExisted => oBucket = oBucket0
    /\ (MetadataExisted /\ OpenReturned) =>
          /\ ~oRet.writer
          /\ oRet.err = IF oGet.err = NoErr THEN "exists" ELSE "request"
          /\ oGet.err = NoErr <=> (oGet.md = oBucket0["meta"] /\ oGet.md # "corrupt")
    /\ (OpenReturned /\ oRet.writer) => oGet.err = NoSuchKey
    /\ (OpenReturned /\ oGet.err \notin {NoErr, NoSuchKey}) => (~oRet.writer /\ oRet.err = "request")
    /\ ~oRet.writer => oBucket = oBucket0

\* the dump command failed on the metadata of an earlier dump, with the old
\* parts in place
C24_Witness ==
    /\ oPc = "failed"
    /\ MetadataExisted
    /\ oGet.err = NoErr
    /\ oRet.err = "exists"
    /\ oBucket = oBucket0
    /\ "part1" \in DOMAIN oBucket
(***************************************************************************)
(* Fetcher.calcLimit claims                                                *)
(***************************************************************************)
\* the window had been filled when calcLimit was last called
WindowFilled == clCall.offset >= LimitCalcSize

\* the value of a window with at most half of the values below it and more
\* than half of them at or below it
MedianOfWindow(s) ==
    CHOOSE v \in {s[i] : i \in 1..Len(s)} :
        /\ 2 * Len(SelectSeq(s, LAMBDA x : x < v)) <= Len(s)
        /\ 2 * Len(SelectSeq(s, LAMBDA x : x <= v)) > Len(s)

\* the median the last calcLimit call worked with
CallMedian == MedianOfWindow(clCall.window)

\* (4096 / m) * (ReadCapacity / MaxParallel) in exact arithmetic: its floor,
\* and whether it is a whole number
ExactLimit ==
    (Bytes4k * clFetcher.ReadCapacity) \div (CallMedian * clFetcher.MaxParallel)

ExactIsWhole ==
    (Bytes4k * clFetcher.ReadCapacity) % (CallMedian * clFetcher.MaxParallel) = 0

\* the limit for the floor k: k for consistent reads and twice k otherwise,
\* raised to 1
LimitFor(k) ==
    LET scaled == IF clFetcher.ConsistentRead THEN k ELSE 2 * k
    IN IF scaled < 1 THEN 1 ELSE scaled

\* before the window has filled the result is -1 and the scan limit is left
\* unchanged
UnfilledLeavesLimit ==
    (clCall.called /\ ~WindowFilled) => (clCall.ret = -1 /\ clLimit = clCall.before)

\* C25 as stated: once the size window has filled with median m > 0, the
\* result of calcLimit equals floor((4096 / m) * (ReadCapacity / MaxParallel))
\* when ConsistentRead is on and twice that floor when it is off, raised to 1
\* when it is below 1; before the window has filled the result is -1 and the
\* scan limit is left unchanged.
C25_LimitAsClaimed ==
    /\ UnfilledLeavesLimit
    /\ (clCall.called /\ WindowFilled /\ CallMedian > 0) =>
          clCall.ret = LimitFor(ExactLimit)

\* C25 (amended): once the size window has filled with median m > 0, the
\* result of calcLimit is built from the float64 product (4096 / m) *
\* (ReadCapacity / MaxParallel) cut to an integer, which is the floor of the
\* exact product, or one less than it where the exact product is a whole
\* number that the float64 product falls short of; it is that integer when
\* ConsistentRead is on and twice it when off, raised to 1 when below 1, and
\* it becomes the scan limit; before the window has filled the result is -1
\* and the scan limit is left unchanged.
C25_Limit ==
    /\ UnfilledLeavesLimit
    /\ (clCall.called /\ WindowFilled /\ CallMedian > 0) =>
          /\ \/ clCall.ret = LimitFor(ExactLimit)
             \/ ExactIsWhole /\ clCall.ret = LimitFor(ExactLimit - 1)
          /\ clLimit = clCall.ret

\* calcLimit was called on a filled window whose sizes were added out of
\* order, median 49, and returned one less than the exact 4096 * 49 / (49 * 2)
C25_Witness ==
    /\ clCall.called
    /\ WindowFilled
    /\ clCall.window = <<49, 0, 49>>
    /\ clFetcher = [ReadCapacity |-> 49, MaxParallel |-> 2, ConsistentRead |-> TRUE]
    /\ clCall.ret = 2047
    /\ clLimit = 2047

\* calcLimit was last called with ReadCapacity 1000, MaxParallel 5 and a
\* filled window of median 10
ExampleCall ==
    /\ clCall.called
    /\ WindowFilled
    /\ CallMedian = 10
    /\ clFetcher.ReadCapacity = 1000
    /\ clFetcher.MaxParallel = 5

\* C26 as stated: calcLimit with ReadCapacity 1000, MaxParallel 5,
\* ConsistentRead off and median item size 10 (window filled) returns
\* floor(4096/10) * (1000/5) * 2 = 163600, and with ConsistentRead on it
\* returns half of that.
C26_ExampleAsClaimed ==
    ExampleCall => clCall.ret = IF clFetcher.ConsistentRead THEN 81800 ELSE 163600

\* C26 (amended): calcLimit with ReadCapacity 1000, MaxParallel 5,
\* ConsistentRead off and median item size 10 (window filled) returns
\* floor((4096/10) * (1000/5)) * 2 = 163840, and with ConsistentRead on it
\* returns half of that, 81920.
C26_Example ==
    ExampleCall => clCall.ret = IF clFetcher.ConsistentRead THEN 81920 ELSE 163840

\* the example call with ConsistentRead off has returned
C26_Witness ==
    /\ ExampleCall
    /\ ~clFetcher.ConsistentRead
    /\ clCall.ret = 163840
    /\ clLimit = 163840
(***************************************************************************)
(* S3Writer claims: records received after a failure                       *)
(***************************************************************************)
\* the numbers of the records that have a byte in the data
RecordsIn(data) == {data[i][1] : i \in 1..Len(data)}

\* record n is part of a worker's pending part
InPending(n) == \E w \in WWorkers : n \in RecordsIn(wl[w].pending)

\* record n is part of an uploaded part
InPart(n) == \E k \in DOMAIN s3parts : n \in RecordsIn(s3parts[k].data)

NotedWorkerIdle(w) ==
    (wl[w].failed /\ wpc[w] = "recv") =>
        /\ [wl'[w] EXCEPT !.tail = wl[w].tail] = wl[w]
        /\ wpc'[w] \in {"recv", "done"}

\* a worker that has not noted the failure adds the record it receives to its
\* pending part, whether or not the latch is set
UnnotedWorkerAccepts(w) ==
    (~wl[w].failed /\ wpc[w] = "recv" /\ cRecs' # cRecs /\ wl'[w] # wl[w]) =>
        /\ wl'[w].writeCount = wl[w].writeCount + 1
        /\ wl'[w].pending = wl[w].pending \o cData

LateRecordUploaded == \E r \in late : ~r.noted /\ InPart(r.n)
(***************************************************************************)
(* S3Writer claims: metadata uploads                                       *)
(***************************************************************************)
\* at most one metadata put is in flight
MetaPutsSerialised == Cardinality(metaFlight) <= 1

\* the totals of a metadata object
MetaTotals(m) == <<m.PartCount, m.ItemCount, m.UncompressedBytes, m.CompressedBytes>>

\* successive metadata objects have non-decreasing totals
MetaTotalsGrow ==
    \A i \in 1..Len(metaPuts) : \A j \in i..Len(metaPuts) :
        \A t \in 1..4 : MetaTotals(metaPuts[i].body)[t] <= MetaTotals(metaPuts[j].body)[t]

\* the sum of f over the part numbers 1..n that are in the set
SumParts(parts, n, f(_)) == SumSeq([k \in 1..n |-> IF k \in parts THEN f(k) ELSE 0])

PartItems(k) == s3parts[k].itemcount

PartBytes(k) == Len(s3parts[k].data)

\* the totals of the object count exactly the given uploaded parts
CountsParts(m, parts) ==
    /\ parts \subseteq DOMAIN s3parts
    /\ m.PartCount = Cardinality(parts)
    /\ m.ItemCount = SumParts(parts, partnum, PartItems)
    /\ m.UncompressedBytes = SumParts(parts, partnum, PartBytes)

\* C28 as stated: metadata uploads are serialised, at most one metadata put
\* is in flight at any time across all workers and Run, and successive
\* metadata objects have non-decreasing part_count, item_count,
\* uncompressed_bytes and compressed_bytes, each counting exactly the parts
\* whose upload had succeeded when the object was written.
C28_MetadataAsClaimed ==
    /\ MetaPutsSerialised
    /\ MetaTotalsGrow
    /\ \A i \in 1..Len(metaPuts) : CountsParts(metaPuts[i].body, metaPuts[i].uploaded)

\* C28 (amended): metadata uploads are serialised, at most one metadata put
\* is in flight at any time across all workers and Run, and successive
\* metadata objects have non-decreasing part_count, item_count,
\* uncompressed_bytes and compressed_bytes, each counting exactly the
\* uploaded parts that completePart had counted when the object was written;
\* a part that another worker has uploaded and not yet passed to completePart
\* is not counted, and the last object of a run counts every uploaded part.
C28_Metadata ==
    /\ MetaPutsSerialised
    /\ MetaTotalsGrow
    /\ \A i \in 1..Len(metaPuts) :
          /\ CountsParts(metaPuts[i].body, metaPuts[i].counted)
          /\ metaPuts[i].counted \subseteq metaPuts[i].uploaded
          /\ metaPuts[i].body.EndTime => metaPuts[i].counted = metaPuts[i].uploaded

\* a run that returned after four metadata objects, one of them written by a
\* worker while the other worker's part was uploaded and not yet counted
C28_Witness ==
    /\ runPc = "done"
    /\ Len(metaPuts) = 4
    /\ metaPuts[4].body.PartCount = 2
    /\ metaPuts[4].body.EndTime
    /\ \E i \in 1..Len(metaPuts) : metaPuts[i].counted # metaPuts[i].uploaded
(***************************************************************************)
(* S3Writer claims: part numbers and part keys                             *)
(***************************************************************************)
\* the workers that hold a part number for a flush in progress
Flushing == {w \in WWorkers : wpc[w] \in {"put", "complete", "metaput"}}

\* the keys of the uploaded parts
UploadedKeys == {s3parts[k].key : k \in DOMAIN s3parts}

\* part numbers start at 1, and the flushes in progress hold different part
\* numbers and keys, none of them uploaded before
NumbersDistinct ==
    /\ DOMAIN s3parts \subseteq 1..partnum
    /\ \A k \in DOMAIN s3parts : s3parts[k].part = k /\ s3parts[k].key = S3PartKey(k)
    /\ \A w \in Flushing :
          /\ wl[w].pn \in 1..partnum
          /\ wl[w].key = S3PartKey(wl[w].pn)
          /\ \A v \in Flushing \ {w} : wl[v].pn # wl[w].pn /\ wl[v].key # wl[w].key
          /\ wpc[w] = "put" => (wl[w].pn \notin DOMAIN s3parts /\ wl[w].key \notin UploadedKeys)

\* a step that allocates a part number takes the number after the last one
\* allocated, for the one worker that starts a flush
AllocatesNext ==
    partnum' # partnum =>
        /\ partnum' = partnum + 1
        /\ \E w \in WWorkers :
              /\ wpc[w] = "flush" /\ wpc'[w] = "put"
              /\ wl'[w].pn = partnum'
              /\ \A v \in WWorkers \ {w} : wl'[v] = wl[v]

\* a step that uploads a part stores one new object under a part number and
\* a key that no earlier upload used, and leaves the other objects alone
UploadsNew ==
    s3parts' # s3parts =>
        \E k \in DOMAIN s3parts' \ DOMAIN s3parts :
            /\ DOMAIN s3parts' = DOMAIN s3parts \cup {k}
            /\ s3parts'[k].key \notin UploadedKeys
            /\ \A j \in DOMAIN s3parts : s3parts'[j] = s3parts[j]

\* Run has returned nil
RunSucceeded == runPc = "done" /\ runErr = NoErr

\* C29: part numbers are allocated from 1 in strictly increasing order, no two
\* uploads ever use the same part number or object key even when workers
\* flush concurrently, and after a successful run the uploaded part keys are
\* exactly <prefix>-part-000000001.json.gz through
\* <prefix>-part-<part_count as 9 digits>.json.gz.
C29_PartNumbering ==
    /\ [](partnum = 0 => s3parts = <<>>)
    /\ []NumbersDistinct
    /\ [][AllocatesNext /\ UploadsNew]_vars
    /\ [](RunSucceeded =>
             /\ s3meta.PartCount = partnum
             /\ UploadedKeys = {S3PartKey(k) : k \in 1..s3meta.PartCount}
             /\ Cardinality(UploadedKeys) = s3meta.PartCount)

\* a successful run in which both workers had flushes in progress at a time
\* and part 2 was completed before part 1
C29_Witness ==
    /\ RunSucceeded
    /\ s3meta.PartCount = 3
    /\ Len(completed) = 3
    /\ completed[1] = 2
    /\ S3PartKey(3) \in UploadedKeys
(***************************************************************************)
(* Fetcher claims: the scan requests of a segment goroutine                *)
(***************************************************************************)
\* the segment goroutines that Run has started
StartedSegments == {w \in FWorkers : fw[w].pc # "off"}

\* the goroutine started i-th (from 0) asks for segment i of MaxParallel
\* segments, and every segment is asked for by exactly one goroutine
OneWorkerPerSegment ==
    /\ \A w \in StartedSegments :
          /\ fw[w].params.Segment = w - 1
          /\ fw[w].params.TotalSegments = FMaxParallel
    /\ StartedSegments # {} =>
          \A seg \in 0..(FMaxParallel - 1) :
              Cardinality({w \in StartedSegments : fw[w].params.Segment = seg}) = 1

\* a goroutine about to send a request: the first request has no start key,
\* a later one has the LastEvaluatedKey of the previous response
StartKeyFollows ==
    \A w \in FWorkers :
        fw[w].pc = "loop" =>
            IF fw[w].scanned
            THEN fw[w].lastKey # NoKey /\ fw[w].params.ExclusiveStartKey = fw[w].lastKey
            ELSE fw[w].params.ExclusiveStartKey = NoKey

\* the items of the sink that belong to the table segment w
SinkOf(w) ==
    SelectSeq(sink, LAMBDA it : \E i \in 1..Len(fCfg.segments[w]) : fCfg.segments[w][i] = it)

\* the number of items of its responses a goroutine has passed to the sink
PassedOn(w) == fw[w].pos - Len(fw[w].resp) + (fw[w].k - 1)

\* the sink has the items of the responses of each goroutine in response
\* order, and all items of a response before the goroutine sends its next
\* request
ResponsesInOrder ==
    \A w \in FWorkers :
        /\ SinkOf(w) = SubSeq(fCfg.segments[w], 1, PassedOn(w))
        /\ fw[w].pc = "loop" => PassedOn(w) = fw[w].pos

\* a goroutine whose response had no LastEvaluatedKey exits, reporting nil
ExitsAtEnd ==
    \A w \in FWorkers :
        (fw[w].pc = "check" /\ fw[w].lastKey = NoKey /\ fw'[w] # fw[w]) =>
            /\ fw'[w].pc = "exit"
            /\ fReports' = Append(fReports, NoErr)

\* C30: Fetcher worker i (0 <= i < MaxParallel) sends every scan request with
\* Segment i and TotalSegments MaxParallel, so each segment is scanned by
\* exactly one worker; its first request carries no start key, each later
\* request carries the LastEvaluatedKey of that worker's previous response, it
\* exits when a response has no LastEvaluatedKey, and it passes the items of
\* each response to the sink in response order before issuing the next
\* request.
C30_SegmentRequests ==
    /\ [](OneWorkerPerSegment /\ StartKeyFollows /\ ResponsesInOrder)
    /\ [][ExitsAtEnd]_vars

\* the goroutine of segment 1 has exited after a request with a start key
\* whose response had no LastEvaluatedKey, and the sink has every item
C30_Witness ==
    \E w \in FWorkers :
        /\ fw[w].pc = "exit"
        /\ fw[w].params.Segment = 1
        /\ fw[w].params.ExclusiveStartKey = KeyAt(1)
        /\ fw[w].lastKey = NoKey
        /\ fw[w].pos = 2
        /\ Len(sink) = MaxScanItems

(***************************************************************************)
(* limitCalc claims                                                        *)
(***************************************************************************)
\* the number of times each size occurs in a sequence of sizes
SizeCounts(s) == [v \in ItemSizes |-> Len(SelectSeq(s, LAMBDA x : x = v))]

\* the last k sizes added, k the window length; while fewer have been added,
\* those added followed by the zeroes newLimitCalc made
LastAdded ==
    LET k == Len(limitCalc.itemSizes)
        n == Len(clAdded)
    IN IF n >= k THEN SubSeq(clAdded, n - k + 1, n)
       ELSE clAdded \o [i \in 1..(k - n) |-> 0]

\* the window holds the last k sizes added, in whatever order
WindowHoldsLastAdded == SizeCounts(limitCalc.itemSizes) = SizeCounts(LastAdded)

\* the last median call returned -1 on a window not yet filled, and otherwise
\* the element at index k/2 of the sorted window
MedianOfSorted ==
    clCall.called =>
        clCall.median = IF clCall.offset < LimitCalcSize THEN -1
                        ELSE SortInts(clCall.window)[(LimitCalcSize \div 2) + 1]

\* a median call leaves the stored window as it was
MedianLeavesWindow == NextLimit => limitCalc' = limitCalc

\* C32: after any sequence of addSize and median calls the window holds
\* exactly the last k sizes added (k the window length); median returns -1
\* while fewer than k sizes have been added and afterwards the element at
\* index k/2 of the sorted window contents, and a median call leaves the
\* stored window unchanged, so that the next addSize still replaces the
\* oldest size.
C32_Window ==
    /\ [](WindowHoldsLastAdded /\ MedianOfSorted)
    /\ [][MedianLeavesWindow]_vars

\* what the code does keep: the value median returns is as described, a
\* median call only reorders the window, and while no median call has been
\* made on a filled window the window holds the last k sizes added
MedianReorders ==
    NextLimit => /\ SizeCounts(limitCalc'.itemSizes) = SizeCounts(limitCalc.itemSizes)
                 /\ limitCalc'.offset = limitCalc.offset

WindowUntilSorted ==
    /\ [](MedianOfSorted)
    /\ []((~clCall.called \/ clCall.offset < LimitCalcSize) => WindowHoldsLastAdded)
    /\ [][MedianReorders]_vars

\* a size added after a median call on the filled window <<49, 0, 10>> has
\* replaced the largest size, not the oldest
WindowSortedWitness ==
    /\ clAdded = <<49, 0, 10, 49>>
    /\ clCall.called
    /\ clCall.window = <<49, 0, 10>>
    /\ clCall.median = 10
    /\ limitCalc.itemSizes = <<49, 10, 49>>

(***************************************************************************)
(* Fetcher claims: the scan limit                                          *)
(***************************************************************************)
\* with a read capacity, every Scan call made before the window has filled
\* uses the slow start limit
SlowStartUntilFilled ==
    rlCfg.ReadCapacity > 0 =>
        \A r \in rlReqs : ~r.filled => r.Limit = InitialLimit

\* without a read capacity there is no bucket, no goroutine has called Take
\* or waits in waitForRateLimit, and every Scan call is without limit
NoLimitWithoutCapacity ==
    rlCfg.ReadCapacity <= 0 =>
        /\ rateLimit = NoBucket
        /\ \A w \in RWorkers : ~rlw[w].took /\ rlw[w].pc # "waiting"
        /\ \A r \in rlReqs : r.Limit = Unlimited

\* C31: with ReadCapacity > 0 every scan request issued while fewer than
\* limitCalcSize item sizes have been recorded in the shared size window
\* uses Limit initialLimit (20); with ReadCapacity <= 0 no rate limiter
\* exists, no worker ever waits on capacity, and every request of the run
\* uses Limit 0.
C31_ScanLimit == SlowStartUntilFilled /\ NoLimitWithoutCapacity

\* with a read capacity, one goroutine has made a Scan call at the slow start
\* limit before the window had filled, and a Scan call at a calculated limit
\* after it had
C31_Witness ==
    /\ rlCfg.ReadCapacity > 0
    /\ \E w \in RWorkers :
        /\ [w |-> w, Limit |-> InitialLimit, filled |-> FALSE] \in rlReqs
        /\ \E r \in rlReqs : r.w = w /\ r.filled /\ r.Limit > InitialLimit

\* without a read capacity, both goroutines have made Scan calls and Run has
\* returned
UnlimitedRunWitness ==
    /\ rlCfg.ReadCapacity <= 0
    /\ rlRun.pc = "done"
    /\ \A w \in RWorkers : \E r \in rlReqs : r.w = w

(***************************************************************************)
(* Fetcher claims: the rate limit wait and Stop                            *)
(***************************************************************************)
\* a goroutine blocked in the wait can leave it as soon as stopNotify is
\* closed, whatever is left of the delay
WaitReturnsOnStop ==
    \A w \in RWorkers :
        (rlw[w].pc = "waiting" /\ rlStop.notify) => ENABLED WaitStopped(w)

\* a goroutine whose wait was ended by stopNotify has returned
StoppedInWaitHasExited ==
    \A w \in RWorkers : rlw[w].stopInWait => rlw[w].pc = "exit"

\* the wait ended by stopNotify leads to the exit, with no Scan call
StoppedWaitExits ==
    \A w \in RWorkers :
        WaitStopped(w) => (rlw'[w].pc = "exit" /\ rlReqs' = rlReqs)

\* the wait ended by the timer leads to the isStopped test, not to Scan
ElapsedWaitChecks ==
    \A w \in RWorkers :
        WaitElapsed(w) => (rlw'[w].pc = "check" /\ rlReqs' = rlReqs)

\* a goroutine goes on to Scan only from the isStopped test, with stopNotify
\* not closed at the test
ScansOnlyUnstopped ==
    \A w \in RWorkers :
        (rlw'[w].pc = "scan" /\ rlw[w].pc # "scan") =>
            (rlw[w].pc = "check" /\ ~rlStop.notify)

\* a Scan call is made only by a goroutine that has passed the test
ScanCallsAfterTest ==
    (\E w \in RWorkers : RateScan(w) \/ RateScanFail(w)) \/ rlReqs' = rlReqs

\* C33: a Fetcher worker blocked in the rate-limit wait: when stop is
\* signalled the wait returns early and the worker exits without issuing
\* another scan request; when the delay elapses first the worker checks the
\* stop signal once more and scans only if stop has not been signalled.
C33_WaitAndStop ==
    /\ [](WaitReturnsOnStop /\ StoppedInWaitHasExited)
    /\ [][StoppedWaitExits /\ ElapsedWaitChecks /\ ScansOnlyUnstopped
            /\ ScanCallsAfterTest]_vars

\* one goroutine has scanned once, then left its wait on stopNotify and
\* returned; the other sat out its delay, found the stop at the test and
\* returned too, after one Scan call as well
C33_Witness ==
    /\ rlStop.notify
    /\ \E w, v \in RWorkers :
        /\ rlw[w].stopInWait /\ rlw[w].pc = "exit"
        /\ ~rlw[v].stopInWait /\ rlw[v].took /\ rlw[v].pc = "exit"
        /\ \E r \in rlReqs : r.w = w
        /\ \E r \in rlReqs : r.w = v
        /\ rlRun.err = NoErr

(***************************************************************************)
(* S3Deleter claims: failed deletes and Abort                              *)
(***************************************************************************)
\* the number of keys of the first n DeleteObjects calls
RECURSIVE KeysRequested(_)
KeysRequested(n) == IF n = 0 THEN 0 ELSE KeysRequested(n - 1) + Len(dReqs[n])

\* after a failed DeleteObjects call no further call is made, Completed()
\* counts the keys of the calls before it, and Delete, once it has returned,
\* has returned an error
FailedCallIsLast ==
    dFailed # 0 =>
        /\ dFailed = Len(dReqs)
        /\ delcount = KeysRequested(dFailed - 1)
        /\ dl.pc \in {"after", "done"}
        /\ dl.pc = "done" => dl.ret # NoErr

\* after a failed DeleteObjects call Delete moves to no further page
FailedCallEndsPaging == dFailed # 0 => dl'.page = dl.page

\* C34: when a DeleteObjects call returns an error or reports a per-key
\* error, Delete returns a non-nil error, requests no further page and
\* issues no further delete, and Completed() does not count the keys of the
\* failed call.
C34_FailedDelete == [](FailedCallIsLast) /\ [][FailedCallEndsPaging]_vars

\* the DeleteObjects call of the first of two pages reported a key error:
\* Delete has returned that error, nothing is counted, and the second page's
\* part is still there
C34_Witness ==
    /\ dl.pc = "done"
    /\ dl.ret = "keyerr"
    /\ dFailed = 1
    /\ Len(dStore) = 2
    /\ dl.page = 1
    /\ delcount = 0
    /\ \E k \in KeySet(dStore[2]) : Match(IsPart, k) /\ k \in dBucket

\* the keys of the listing that Delete has deleted as parts
DeletedParts ==
    {k \in KeySet(ListedKeys(dStore)) : Match(IsPart, k) /\ k \notin dBucket}

\* Completed() is the number of keys deleted as parts in the pages deleted
\* so far
CompletedCountsDeleted ==
    /\ delcount = Cardinality(DeletedParts)
    /\ delcount = KeysRequested(IF S3MetaKey \in Requested THEN Len(dReqs) - 1
                                ELSE Len(dReqs))

\* an aborted Delete that has returned has returned nil
AbortedReturnsNil == (dAbort /\ dl.pc = "done") => dl.ret = NoErr

\* a page callback that starts after Abort makes no DeleteObjects call and
\* ends the paging
AbortedCallbackDeletesNothing ==
    (dAbort /\ dl.pc = "list") =>
        (dReqs' = dReqs /\ dBucket' = dBucket /\ dl'.pc = "after")

\* after Abort, Delete moves to no further page
AbortEndsPaging == dAbort => dl'.page = dl.page

\* Completed() never decreases
CompletedGrows == delcount' >= delcount

C36_ReadAfterError == rAfter > 0 => (rRet.n = 0 /\ rRet.err # RNil)

\* what the code does: a Read call made after a Read has returned the error
\* of the pipe returns zero bytes and a nil error, without entering the pipe
LaterReadsReturnNil ==
    rAfter > 0 => (rRet = [n |-> 0, err |-> RNil] /\ rcPc = "idle" /\ StreamEnded)

\* a stream of three parts was read to io.EOF and Read was called again
LaterReadWitness ==
    /\ Len(Listed) = 3
    /\ rErr = REOF
    /\ rOut = BodiesUpTo(3)
    /\ rAfter = 1
    /\ rRet = [n |-> 0, err |-> RNil]

\* a call of the object store made by the reader goroutine has failed
StoreFailed == rFail # RNil

\* the bytes the goroutine had passed on when the call failed: the bodies of
\* the parts before the one it was at, and of that one the bytes read
BytesBeforeFailure ==
    BodiesUpTo(rd.partCount)
    \o (IF rFail.kind = "readerr" THEN SubSeq(CurObject.body, 1, rd.off) ELSE <<>>)

\* the stored hash of a part before the one the goroutine was at mismatched,
\* with checks on, so that the pipe was closed before the call failed
MismatchBefore ==
    ~rStore.skip /\ FirstMismatch > 0 /\ FirstMismatch <= rd.partCount

\* C37 as stated: an error returned by the list call, by a part's get call or
\* while reading a part's body is returned unchanged by Read to the
\* consumer, after the bytes of all earlier parts have been delivered, and
\* the stream never ends with a normal end-of-stream in that case.
C37_StoreErrorAsClaimed ==
    StoreFailed =>
        /\ rPipe.done /\ rPipe.werr # REOF
        /\ StreamEnded => (rErr = rFail /\ rOut = BytesBeforeFailure)

\* C37 (amended): an error returned by the list call, by a part's get call
\* or while reading a part's body is returned unchanged by Read to the
\* consumer, after the bytes of all earlier parts have been delivered,
\* unless the stored hash of an earlier part had mismatched with integrity
\* checking on, in which case Read returns the mismatch error of the first
\* such part after the bytes of the parts up to it; the stream never ends
\* with a normal end-of-stream in either case.
C37_StoreError ==
    StoreFailed =>
        /\ rPipe.done /\ rPipe.werr # REOF
        /\ StreamEnded =>
              IF MismatchBefore
              THEN /\ rErr = RErr("mismatch", Listed[FirstMismatch].key)
                   /\ rOut = BodiesUpTo(FirstMismatch)
              ELSE /\ rErr = rFail
                   /\ rOut = BytesBeforeFailure

\* the body of the third of three parts, on the second page, failed to read
\* after its first bytes: Read has returned that error after the bytes of
\* the first two parts and the bytes read of the third
C37_Witness ==
    /\ Len(Listed) = 3
    /\ rFail = RErr("readerr", 3)
    /\ rErr = rFail
    /\ ~MismatchBefore
    /\ rd.partCount = 2
    /\ rd.off > 0
    /\ rOut = BodiesUpTo(2) \o SubSeq(Listed[3].body, 1, rd.off)

\* the get call of the second part failed after the first part's stored hash
\* had mismatched: Read has returned the mismatch error
MismatchBeforeFailureWitness ==
    /\ rFail = RErr("geterr", 2)
    /\ rErr = RErr("mismatch", 1)
    /\ rOut = BodiesUpTo(1)

\* the first Read call has returned the error of the metadata fetch
MetadataFailed == rPipe.made /\ rdPc = "off" /\ rRet.err = RErr("metaerr", 0)

\* C39: if fetching the metadata fails on the first Read call, that call
\* returns the error and every later Read call also returns without
\* blocking; no Read ever waits on a pipe for which no producer goroutine
\* was started.
C39_MetadataFailure ==
    /\ (rPipe.made /\ rdPc = "off") => rRet.err = RErr("metaerr", 0)
    /\ rcPc = "pipe" => rdPc # "off"

\* what the code does after a failed metadata fetch: the first call returns
\* the error, leaves r.err nil and the pipe without a goroutine, and a later
\* Read call enters that pipe, which nothing will ever write to or close
ReadBlocksAfterMetadataFailure ==
    (rPipe.made /\ rdPc = "off") =>
        /\ rRet.err = RErr("metaerr", 0)
        /\ rErr = RNil
        /\ ~rPipe.done
        /\ rOut = <<>>

\* a Read call made after the failed metadata fetch is inside the pipe read
BlockedReadWitness == MetadataFailed /\ rcPc = "pipe"

(***************************************************************************)
(* S3Writer claims: Write after Run returned without workers               *)
(***************************************************************************)
\* Run has returned before it started any worker
RunReturnedEarly == runPc = "done" /\ \A w \in WWorkers : wpc[w] = "idle"

\* a Write call made in this step returns an error: it does not go on to
\* send on w.data, and it leaves a non-nil error
WriteReturnsError == cpc = "write" => (cpc' # "send" /\ (cErr' # cErr => cErr' # NoErr))

\* C38: if Run returns before starting any worker (PartSize below
\* MinPartSize, MaxParallel below 1, or the initial metadata upload fails),
\* a Write call made afterwards does not block forever: it returns an error,
\* so the dump pipeline feeding the writer terminates.
C38_WriteAfterEarlyReturn == [][RunReturnedEarly => WriteReturnsError]_vars

\* what the code does: Run returns the error of the metadata upload and
\* leaves the failure latch unset, so that a Write call made afterwards
\* passes its failError test and waits to send on a channel that has no
\* receiver
EarlyReturnLeavesLatch ==
    RunReturnedEarly =>
        /\ runErr = "metafail"
        /\ failed \in {NoErr, "aborted"}
        /\ cRecs = <<>>
        /\ s3parts = <<>>

\* a Write call is waiting to send after Run returned without workers
BlockedWriteWitness == RunReturnedEarly /\ cpc = "send" /\ failed = NoErr

(***************************************************************************)
(* Dump command claims: closing the writers.                               *)
(***************************************************************************)

\* no goroutine of the Fetcher is left that is in Write or could call it
NoWriter == \A w \in FWorkers : fw[w].pc = "exit"

\* once the writer's input channel is closed Fetcher.Run has returned, no
\* Write was caught sending on the channel and none can start
ClosedAfterRun ==
    chanClosed => (fRun.pc = "done" /\ cpc = "closed" /\ NoWriter)

\* writers.Close or writers.Abort is called at most once, and which of them
\* follows the outcome: Close after a scan without error and without a user
\* abort taken by the select, Abort otherwise
OneCloseOrAbort ==
    /\ Len(dumpCalls) <= 1
    /\ dumpCalls = <<"Close">> => (fRun.ret = NoErr /\ failed = NoErr)
    /\ dumpCalls = <<"Abort">> => failed = "aborted"
    /\ chanClosed <=> dumpCalls # <<>>

\* the step that closes the channel is taken with Run returned and no Write
\* between its start and its return
CloseStepAfterRun ==
    (~chanClosed /\ chanClosed') => (fRun.pc = "done" /\ cpc = "write" /\ NoWriter)

\* C40: in the dump pipeline the S3Writer is closed or aborted only after
\* Fetcher.Run has returned, so that no Write call is in progress or started
\* when the writer's input channel is closed, after a successful scan, a scan
\* error and a user abort alike, and Close or Abort is called at most once
C40_CloseAfterRun ==
    [](ClosedAfterRun /\ OneCloseOrAbort) /\ [][CloseStepAfterRun]_vars

\* a user abort that stopped a scan which had written an item and had more
\* to read: the writers were aborted and S3Writer.Run has returned
C40_Witness ==
    /\ dumpPc = "done"
    /\ dumpCalls = <<"Abort">>
    /\ fStop.notify
    /\ fRun.ret = NoErr
    /\ sink # <<>>
    /\ fStats.itemsRead < Len(fCfg.segments[1]) + Len(fCfg.segments[2])

\* a scan error: the writers were aborted, and the one stop request is the
\* one Run sent itself
ScanErrorAborts ==
    /\ dumpPc = "done"
    /\ dumpCalls = <<"Abort">>
    /\ fRun.ret # NoErr
    /\ fStop.notify
    /\ fStop.request = 0

\* a scan that read the whole table: the writers were closed
ScanSuccessCloses ==
    /\ dumpPc = "done"
    /\ dumpCalls = <<"Close">>
    /\ Len(sink) = MaxDumpItems

====
